---------------------------- MODULE Spec2Model ----------------------------
(***************************************************************************)
(* The chat pipeline of server.js (src/unnamed/part_001): guardrail, FAQ   *)
(* matcher, answer cache with TTL, vector / keyword retrieval and the      *)
(* external generation call, with concurrent requests that suspend at the  *)
(* two provider calls.                                                     *)
(*                                                                         *)
(* A text is a sequence of one-character strings, so that normalizeText,   *)
(* tokenize and the guardrail patterns are computed character by           *)
(* character.  Fixed messages of the program are kept as one fragment.     *)
(***************************************************************************)
EXTENDS Integers, Sequences, FiniteSets, Bags, TLC

(***************************************************************************)
(* Characters                                                              *)
(***************************************************************************)
UpperSeq ==
  <<"A", "B", "C", "D", "E", "F", "G", "H", "I", "J", "K", "L", "M",
    "N", "O", "P", "Q", "R", "S", "T", "U", "V", "W", "X", "Y", "Z">>

LowerSeq ==
  <<"a", "b", "c", "d", "e", "f", "g", "h", "i", "j", "k", "l", "m",
    "n", "o", "p", "q", "r", "s", "t", "u", "v", "w", "x", "y", "z">>

Digits == {"0", "1", "2", "3", "4", "5", "6", "7", "8", "9"}

UpperLetters == {UpperSeq[i] : i \in 1..Len(UpperSeq)}

LowerLetters == {LowerSeq[i] : i \in 1..Len(LowerSeq)}

\* \s of a JavaScript regular expression, within the characters of the model
IsWhitespace(c) == c \in {" ", "\t", "\n", "\r"}

\* \w of a JavaScript regular expression: [A-Za-z0-9_]
IsWordChar(c) == c \in UpperLetters \cup LowerLetters \cup Digits \cup {"_"}

\* the line terminators that "." of a regular expression does not match
IsLineTerminator(c) == c \in {"\n", "\r"}

\* String.prototype.toLowerCase on one character
ToLowerChar(c) ==
  IF c \in UpperLetters
    THEN LowerSeq[CHOOSE i \in 1..Len(UpperSeq) : UpperSeq[i] = c]
    ELSE c

ToLowerCase(s) == [i \in 1..Len(s) |-> ToLowerChar(s[i])]

\* String.prototype.trim
Trim(s) ==
  LET keep == {i \in 1..Len(s) : ~IsWhitespace(s[i])}
  IN  IF keep = {} THEN <<>>
      ELSE LET first == CHOOSE i \in keep : \A j \in keep : i <= j
               last  == CHOOSE i \in keep : \A j \in keep : j <= i
           IN  SubSeq(s, first, last)

\* .replace(/[^a-z0-9\s]/g, ' ')
ReplaceNonAlnum(s) ==
  [i \in 1..Len(s) |->
     IF s[i] \in LowerLetters \cup Digits \/ IsWhitespace(s[i]) THEN s[i] ELSE " "]

\* .replace(/\s+/g, ' ')
CollapseWhitespace(s) ==
  LET \* the first character of each run of whitespace, and all the others
      kept == SelectSeq([i \in 1..Len(s) |-> i],
                        LAMBDA i : ~IsWhitespace(s[i]) \/ i = 1
                                     \/ ~IsWhitespace(s[i - 1]))
  IN  [k \in 1..Len(kept) |-> IF IsWhitespace(s[kept[k]]) THEN " " ELSE s[kept[k]]]

normalizeText(value) ==
  Trim(CollapseWhitespace(ReplaceNonAlnum(ToLowerCase(value))))

\* String.prototype.split(' '): the pieces between single spaces
SplitOnSpace(s) ==
  LET \* the positions of the spaces, with the two ends of the string
      spaces == SelectSeq([i \in 1..Len(s) |-> i], LAMBDA i : s[i] = " ")
      cuts == <<0>> \o spaces \o <<Len(s) + 1>>
  IN  [k \in 1..(Len(cuts) - 1) |-> SubSeq(s, cuts[k] + 1, cuts[k + 1] - 1)]

tokenize(value) ==
  SelectSeq(SplitOnSpace(normalizeText(value)), LAMBDA t : Len(t) > 2)

\* new Set(tokenize(value))
TokenSet(value) ==
  LET tokens == tokenize(value) IN {tokens[i] : i \in 1..Len(tokens)}

(***************************************************************************)
(* Guardrail patterns                                                      *)
(***************************************************************************)
\* the alternatives of the first pattern, each \b-delimited, flag i
BlockedTerms ==
  { <<"d", "o", "s", "e">>,
    <<"d", "o", "s", "a", "g", "e">>,
    <<"m", "g">>,
    <<"p", "r", "e", "s", "c", "r", "i", "b", "e">>,
    <<"p", "r", "e", "s", "c", "r", "i", "p", "t", "i", "o", "n">>,
    <<"m", "e", "d", "i", "c", "a", "t", "i", "o", "n", " ", "p", "l", "a", "n">>,
    <<"t", "r", "e", "a", "t", " ", "m", "e">>,
    <<"d", "i", "a", "g", "n", "o", "s", "e", " ", "m", "e">> }

\* the two parts of the second pattern: \bhow much\b .* \b(mg|dose)\b
HowMuch == <<"h", "o", "w", " ", "m", "u", "c", "h">>

HowMuchTerms == { <<"m", "g">>, <<"d", "o", "s", "e">> }

\* \b at the position after the first i characters of s
WordBoundary(s, i) ==
  (i >= 1 /\ i <= Len(s) /\ IsWordChar(s[i]))
    # (i + 1 >= 1 /\ i + 1 <= Len(s) /\ IsWordChar(s[i + 1]))

\* the literal w (lower case) read at position i of s, ignoring case
LiteralAt(s, i, w) ==
  /\ i >= 1
  /\ i + Len(w) - 1 <= Len(s)
  /\ ToLowerCase(SubSeq(s, i, i + Len(w) - 1)) = w

\* \bw\b matches s at position i
WordAt(s, i, w) ==
  /\ LiteralAt(s, i, w)
  /\ WordBoundary(s, i - 1)
  /\ WordBoundary(s, i + Len(w) - 1)

\* RegExp.prototype.test for the two patterns, by index in the list
PatternTest(p, s) ==
  IF p = 1
    THEN \E w \in BlockedTerms : \E i \in 1..Len(s) : WordAt(s, i, w)
    ELSE \E i \in 1..Len(s) :
           /\ WordAt(s, i, HowMuch)
           /\ \E w \in HowMuchTerms : \E j \in (i + Len(HowMuch))..Len(s) :
                /\ WordAt(s, j, w)
                /\ \A k \in (i + Len(HowMuch))..(j - 1) : ~IsLineTerminator(s[k])

blockedMedicalPatterns == {1, 2}

\* a guardrail that tests the second pattern alone
isBlockedBySecondPattern(question) == PatternTest(2, question)

isBlockedMedicalQuestion(question) ==
  \E p \in blockedMedicalPatterns : PatternTest(p, question)

(***************************************************************************)
(* Program constants and fixed messages                                    *)
(***************************************************************************)
CHATBOT_CONTEXT_CHUNKS == 2

CHATBOT_CACHE_TTL_HOURS == 168

MinQuestionLength == 4

MaxQuestionLength == 800

\* ttlMs of getCachedAnswer
ttlMs == CHATBOT_CACHE_TTL_HOURS * 60 * 60 * 1000

RefusalAnswer ==
  <<"I can share general educational information, but I cannot provide diagnosis, prescriptions, or dosage advice. Please consult a licensed clinician for personal medical guidance.">>

noDataAnswer ==
  <<"I do not have enough trusted information in the current knowledge base to answer that. Please contact a licensed clinician or use our trusted resource links.">>

GenerationFallback == <<"I could not generate an answer right now.">>

FaqDisclaimer == <<"\n\nThis is educational information, not medical advice.">>

AnswerDisclaimer == <<"\n\nThis is educational information and not medical advice.">>

ErrDisabled == "Chatbot is currently disabled."

ErrLength == "Please send a question between 4 and 800 characters."

ErrNotConfigured == "Chatbot is not configured yet (missing OPENAI_API_KEY)."

ErrUnavailable == "Chat assistant is temporarily unavailable."

(***************************************************************************)
(* Scores.  A score is kept exactly as dot / sqrt(sq) with sq > 0, so that *)
(* the keyword score overlap / n is [dot |-> overlap, sq |-> n * n] and    *)
(* the cosine is [dot |-> a.b, sq |-> |a|^2 * |b|^2]; rounding of the      *)
(* program's floating point numbers is not modelled.                       *)
(***************************************************************************)
MinusOne == [dot |-> -1, sq |-> 1]

Abs(n) == IF n < 0 THEN -n ELSE n

Max(a, b) == IF a >= b THEN a ELSE b

Min(a, b) == IF a <= b THEN a ELSE b

\* x > 0 for a score x
ScorePositive(x) == x.dot > 0

\* x > y for scores x and y
ScoreGreater(x, y) == x.dot * Abs(x.dot) * y.sq > y.dot * Abs(y.dot) * x.sq

\* a descending sort that puts an item before the items of its score
SortByScoreDescLaterFirst(items) ==
  LET Insert(sorted, item) ==
        LET before == {k \in 1..Len(sorted) :
                         ScoreGreater(sorted[k].score, item.score)}
            n == Cardinality(before)
        IN  SubSeq(sorted, 1, n) \o <<item>> \o SubSeq(sorted, n + 1, Len(sorted))
      F[i \in 0..Len(items)] ==
        IF i = 0 THEN <<>> ELSE Insert(F[i - 1], items[i])
  IN  F[Len(items)]

\* Array.prototype.sort((a, b) => b.score - a.score): stable, descending
SortByScoreDesc(items) ==
  LET Insert(sorted, item) ==
        LET before == {k \in 1..Len(sorted) :
                         ~ScoreGreater(item.score, sorted[k].score)}
            n == Cardinality(before)
        IN  SubSeq(sorted, 1, n) \o <<item>> \o SubSeq(sorted, n + 1, Len(sorted))
      F[i \in 0..Len(items)] ==
        IF i = 0 THEN <<>> ELSE Insert(F[i - 1], items[i])
  IN  F[Len(items)]

\* Array.prototype.slice(0, limit)
Slice(items, limit) == SubSeq(items, 1, Min(limit, Len(items)))

(***************************************************************************)
(* FAQ matcher                                                             *)
(***************************************************************************)
\* the (entry, prompt) pairs in the order the two loops visit them
FaqPromptPairs(faqs) ==
  LET F[i \in 0..Len(faqs)] ==
        IF i = 0 THEN <<>>
        ELSE F[i - 1] \o [j \in 1..Len(faqs[i].prompts) |-> <<i, j>>]
  IN  F[Len(faqs)]

\* a matcher that accepts the best score only above 0.7
findFaqAnswerAbove(question, faqs) ==
  LET qTokens == TokenSet(question)
      pairs == FaqPromptPairs(faqs)
      G[k \in 0..Len(pairs)] ==
        IF k = 0 THEN [best |-> 0, num |-> 0, den |-> 1]
        ELSE LET prev == G[k - 1]
                 pTokens == TokenSet(faqs[pairs[k][1]].prompts[pairs[k][2]])
                 overlap == Cardinality(qTokens \cap pTokens)
                 larger == Max(Cardinality(qTokens), Cardinality(pTokens))
             IN  IF pTokens = {} THEN prev
                 ELSE IF overlap * prev.den > prev.num * larger
                        THEN [best |-> pairs[k][1], num |-> overlap, den |-> larger]
                        ELSE prev
      result == G[Len(pairs)]
  IN  IF qTokens = {} THEN 0
      ELSE IF result.best # 0 /\ result.num * 10 > 7 * result.den
             THEN result.best
             ELSE 0

\* the index in faqs of the entry findFaqAnswer returns, 0 for null
findFaqAnswer(question, faqs) ==
  LET qTokens == TokenSet(question)
      pairs == FaqPromptPairs(faqs)
      G[k \in 0..Len(pairs)] ==
        IF k = 0 THEN [best |-> 0, num |-> 0, den |-> 1]
        ELSE LET prev == G[k - 1]
                 pTokens == TokenSet(faqs[pairs[k][1]].prompts[pairs[k][2]])
                 overlap == Cardinality(qTokens \cap pTokens)
                 larger == Max(Cardinality(qTokens), Cardinality(pTokens))
             IN  IF pTokens = {} THEN prev
                 ELSE IF overlap * prev.den > prev.num * larger
                        THEN [best |-> pairs[k][1], num |-> overlap, den |-> larger]
                        ELSE prev
      result == G[Len(pairs)]
  IN  IF qTokens = {} THEN 0
      ELSE IF result.best # 0 /\ result.num * 10 >= 7 * result.den
             THEN result.best
             ELSE 0

(***************************************************************************)
(* Retrieval                                                               *)
(***************************************************************************)
\* a keyword retrieval that cuts to the limit before it sorts
retrieveByKeywordCutFirst(question, limit, docs) ==
  LET qTokens == TokenSet(question)
      scoreOf(doc) ==
        LET dTokens == TokenSet(doc.title \o <<" ">> \o doc.content)
            overlap == Cardinality(qTokens \cap dTokens)
            n == Max(1, Cardinality(qTokens))
        IN  [dot |-> overlap, sq |-> n * n]
      scored == [i \in 1..Len(docs) |-> [doc |-> docs[i], score |-> scoreOf(docs[i])]]
  IN  IF qTokens = {} THEN <<>>
      ELSE SortByScoreDesc(
             Slice(SelectSeq(scored, LAMBDA item : ScorePositive(item.score)),
                   limit))

retrieveByKeyword(question, limit, docs) ==
  LET qTokens == TokenSet(question)
      scoreOf(doc) ==
        LET dTokens == TokenSet(doc.title \o <<" ">> \o doc.content)
            overlap == Cardinality(qTokens \cap dTokens)
            n == Max(1, Cardinality(qTokens))
        IN  [dot |-> overlap, sq |-> n * n]
      scored == [i \in 1..Len(docs) |-> [doc |-> docs[i], score |-> scoreOf(docs[i])]]
  IN  IF qTokens = {} THEN <<>>
      ELSE Slice(SortByScoreDesc(
                   SelectSeq(scored, LAMBDA item : ScorePositive(item.score))),
                 limit)

Dot(a, b) ==
  LET F[i \in 0..Len(a)] == IF i = 0 THEN 0 ELSE F[i - 1] + a[i] * b[i]
  IN  F[Len(a)]

\* a similarity that compares vectors of different dimensions on the
\* dimensions they share
cosineSimilarityShared(a, b) ==
  LET n == Min(Len(a), Len(b))
      u == SubSeq(a, 1, n)
      v == SubSeq(b, 1, n)
  IN  IF n = 0 THEN MinusOne
      ELSE IF Dot(u, u) = 0 \/ Dot(v, v) = 0 THEN MinusOne
      ELSE [dot |-> Dot(u, v), sq |-> Dot(u, u) * Dot(v, v)]

cosineSimilarity(a, b) ==
  IF Len(a) # Len(b) \/ Len(a) = 0 THEN MinusOne
  ELSE IF Dot(a, a) = 0 \/ Dot(b, b) = 0 THEN MinusOne
  ELSE [dot |-> Dot(a, b), sq |-> Dot(a, a) * Dot(b, b)]

\* the loop of retrieveContext over ragDocuments, then the sort
VectorScored(queryEmbedding, docs, embeddings) ==
  LET F[i \in 0..Len(docs)] ==
        IF i = 0 THEN <<>>
        ELSE IF docs[i].id \notin DOMAIN embeddings THEN F[i - 1]
        ELSE LET score == cosineSimilarity(queryEmbedding, embeddings[docs[i].id])
             IN  IF ScorePositive(score)
                   THEN Append(F[i - 1], [doc |-> docs[i], score |-> score])
                   ELSE F[i - 1]
  IN  SortByScoreDesc(F[Len(docs)])

\* a retrieval that returns what the vectors gave, be it nothing
RetrieveAfterEmbeddingAsScored(question, limit, docs, embeddings, outcome) ==
  IF outcome.kind = "vector"
    THEN Slice(VectorScored(outcome.vector, docs, embeddings), limit)
    ELSE retrieveByKeyword(question, limit, docs)

\* a retrieval that returns nothing when the embedding call fails
RetrieveAfterEmbeddingNoFallback(question, limit, docs, embeddings, outcome) ==
  IF outcome.kind = "vector"
    THEN LET scored == VectorScored(outcome.vector, docs, embeddings)
         IN  IF Len(scored) > 0 THEN Slice(scored, limit)
             ELSE retrieveByKeyword(question, limit, docs)
    ELSE <<>>

\* retrieveContext once getEmbedding has answered: outcome is a record
\* [kind |-> "vector", vector |-> v] or [kind |-> "error" | "timeout" |
\* "novector", vector |-> <<>>]
RetrieveAfterEmbedding(question, limit, docs, embeddings, outcome) ==
  IF outcome.kind = "vector"
    THEN LET scored == VectorScored(outcome.vector, docs, embeddings)
         IN  IF Len(scored) > 0 THEN Slice(scored, limit)
             ELSE retrieveByKeyword(question, limit, docs)
    ELSE retrieveByKeyword(question, limit, docs)

\* the test that sends retrieveContext to the embedding provider
UsesVectorMode(hasKey, docs, embeddings) ==
  Len(docs) > 0 /\ hasKey /\ DOMAIN embeddings # {}

buildSourceList(items) ==
  LET F[i \in 0..Len(items)] ==
        IF i = 0 THEN <<>>
        ELSE IF \E k \in 1..Len(F[i - 1]) : F[i - 1][k].url = items[i].doc.url
               THEN F[i - 1]
               ELSE Append(F[i - 1],
                           [title |-> items[i].doc.title, url |-> items[i].doc.url])
  IN  F[Len(items)]

(***************************************************************************)
(* The knowledge build script: text helpers and the chunker                *)
(***************************************************************************)
\* normalizeWhitespace of the knowledge build: .replace(/\s+/g, ' ').trim()
normalizeWhitespace(text) == Trim(CollapseWhitespace(text))

\* text.split(/\n{2,}/): the pieces between the runs of two or more newlines
SplitParagraphs(text) ==
  LET InBreak(i) ==
        /\ text[i] = "\n"
        /\ \/ (i > 1 /\ text[i - 1] = "\n")
           \/ (i < Len(text) /\ text[i + 1] = "\n")
      F[i \in 0..Len(text)] ==
        IF i = 0 THEN << <<>> >>
        ELSE LET prev == F[i - 1]
             IN  IF InBreak(i)
                   THEN IF i > 1 /\ InBreak(i - 1) THEN prev ELSE Append(prev, <<>>)
                   ELSE [prev EXCEPT ![Len(prev)] = Append(@, text[i])]
  IN  F[Len(text)]

\* the index of the first space of a text, 0 when it has none: indexOf(' ') + 1
FirstSpace(text) ==
  LET spaces == {i \in 1..Len(text) : text[i] = " "}
  IN  IF spaces = {} THEN 0 ELSE CHOOSE i \in spaces : \A j \in spaces : i <= j

getTailAtWordBoundary(text, maxChars) ==
  IF Len(text) <= maxChars THEN text
  ELSE LET start == Len(text) - maxChars
           tail == SubSeq(text, start + 1, Len(text))
           firstSpace == FirstSpace(tail)
       IN  IF firstSpace = 0 THEN tail
           ELSE SubSeq(tail, firstSpace + 1, Len(tail))

ParagraphBreak == <<"\n", "\n">>

\* the while loop of chunkText over a paragraph longer than maxChars: the
\* windows it pushes; the loop ends only when overlapChars < maxChars
SliceWindows(paragraph, maxChars, overlapChars) ==
  LET W[start \in 0..Len(paragraph)] ==
        LET end == Min(start + maxChars, Len(paragraph))
            segment == Trim(SubSeq(paragraph, start + 1, end))
            pushed == IF segment # <<>> THEN <<segment>> ELSE <<>>
        IN  IF end >= Len(paragraph) THEN pushed
            ELSE pushed \o W[Max(0, end - overlapChars)]
  IN  W[0]

\* the paragraphs of chunkText: the pieces normalized, the empty ones dropped
Paragraphs(text) ==
  LET Normalized(split) ==
        SelectSeq([i \in 1..Len(split) |-> normalizeWhitespace(split[i])],
                  LAMBDA p : p # <<>>)
  IN  Normalized(SplitParagraphs(text))

\* current ? `${current}\n\n${paragraph}` : paragraph
JoinParagraph(current, paragraph) ==
  IF current # <<>> THEN current \o ParagraphBreak \o paragraph ELSE paragraph

LastChunk(chunks) == IF Len(chunks) > 0 THEN chunks[Len(chunks)] ELSE <<>>

\* the else branch that seeds the buffer with the overlap; seeded records
\* the chunk before it, the overlap taken, the paragraph, the buffer left
SeedBuffer(state, overlap, paragraph) ==
  [chunks |-> state.chunks,
   current |-> JoinParagraph(overlap, paragraph),
   seeded |-> Append(state.seeded,
                     [previous |-> LastChunk(state.chunks),
                      overlap |-> overlap,
                      paragraph |-> paragraph,
                      current |-> JoinParagraph(overlap, paragraph)])]

\* the loop body after the flush of a buffer the paragraph overflowed
AfterFlush(state, paragraph, maxChars, overlapChars) ==
  IF Len(paragraph) > maxChars
    THEN [chunks |-> state.chunks \o SliceWindows(paragraph, maxChars, overlapChars),
          current |-> <<>>,
          seeded |-> state.seeded]
    ELSE SeedBuffer(state,
                    IF Len(state.chunks) > 0
                      THEN getTailAtWordBoundary(LastChunk(state.chunks), overlapChars)
                      ELSE <<>>,
                    paragraph)

\* one pass of the for loop of chunkText
ChunkStep(state, paragraph, maxChars, overlapChars) ==
  IF Len(JoinParagraph(state.current, paragraph)) <= maxChars
    THEN [state EXCEPT !.current = JoinParagraph(state.current, paragraph)]
    ELSE AfterFlush([state EXCEPT !.chunks = IF state.current # <<>>
                                               THEN Append(state.chunks, state.current)
                                               ELSE state.chunks],
                    paragraph, maxChars, overlapChars)

\* the for loop of chunkText: chunks and current after the last paragraph,
\* and seeded, the buffers seeded on the way
ChunkLoop(text, maxChars, overlapChars) ==
  LET Loop(paragraphs) ==
        LET F[i \in 0..Len(paragraphs)] ==
              IF i = 0 THEN [chunks |-> <<>>, current |-> <<>>, seeded |-> <<>>]
              ELSE ChunkStep(F[i - 1], paragraphs[i], maxChars, overlapChars)
        IN  F[Len(paragraphs)]
  IN  Loop(Paragraphs(text))

chunkText(text, maxChars, overlapChars) ==
  LET Finish(last) ==
        LET all == IF last.current # <<>> THEN Append(last.chunks, last.current)
                   ELSE last.chunks
        IN  SelectSeq([i \in 1..Len(all) |-> Trim(all[i])], LAMBDA c : c # <<>>)
  IN  Finish(ChunkLoop(text, maxChars, overlapChars))

(***************************************************************************)
(* The knowledge build script: documents                                   *)
(***************************************************************************)
\* the characters of file names in the order of their UTF-16 code units
CodeOrder ==
  <<"-", ".">> \o <<"0", "1", "2", "3", "4", "5", "6", "7", "8", "9">>
    \o UpperSeq \o <<"_">> \o LowerSeq

CharCode(c) == CHOOSE i \in 1..Len(CodeOrder) : CodeOrder[i] = c

\* a < b for two texts, as Array.prototype.sort() without a comparator
\* orders strings: by the code units, a proper prefix first
TextLess(a, b) ==
  \E k \in 1..(Len(b)) :
    /\ \A i \in 1..(k - 1) : i <= Len(a) /\ a[i] = b[i]
    /\ \/ Len(a) = k - 1
       \/ (k <= Len(a) /\ CharCode(a[k]) < CharCode(b[k]))

\* f.endsWith('.md')
EndsWithMd(name) ==
  Len(name) >= 3 /\ SubSeq(name, Len(name) - 2, Len(name)) = <<".", "m", "d">>

\* file.replace(/\.md$/i, '')
StripMdSuffix(name) ==
  IF Len(name) >= 3
       /\ ToLowerCase(SubSeq(name, Len(name) - 2, Len(name))) = <<".", "m", "d">>
    THEN SubSeq(name, 1, Len(name) - 3)
    ELSE name

\* .replace(/_/g, ' ')
UnderscoresToSpaces(s) == [i \in 1..Len(s) |-> IF s[i] = "_" THEN " " ELSE s[i]]

\* slugify: lower case, every run of characters outside [a-z0-9] replaced by
\* one '-', the '-' at both ends removed
slugify(value) ==
  LET lower == ToLowerCase(value)
      IsSlugChar(c) == c \in LowerLetters \cup Digits
      kept == SelectSeq([i \in 1..Len(lower) |-> i],
                        LAMBDA i : IsSlugChar(lower[i]) \/ i = 1
                                     \/ IsSlugChar(lower[i - 1]))
      dashed == [k \in 1..Len(kept) |->
                   IF IsSlugChar(lower[kept[k]]) THEN lower[kept[k]] ELSE "-"]
      inner == {i \in 1..Len(dashed) : dashed[i] # "-"}
  IN  IF inner = {} THEN <<>>
      ELSE SubSeq(dashed,
                  CHOOSE i \in inner : \A j \in inner : i <= j,
                  CHOOSE i \in inner : \A j \in inner : j <= i)

\* String(n) for a number below 100
DigitSeq == <<"0", "1", "2", "3", "4", "5", "6", "7", "8", "9">>

ToDecimal(n) ==
  IF n < 10 THEN <<DigitSeq[n + 1]>>
  ELSE <<DigitSeq[(n \div 10) + 1], DigitSeq[(n % 10) + 1]>>

\* stripMarkdown on bodies without code spans, images, links, quotes and
\* headings: the characters * _ ~ and \r removed, three or more newlines
\* made two, the ends trimmed
stripMarkdown(text) ==
  LET plain == SelectSeq(text, LAMBDA c : c \notin {"*", "_", "~", "\r"})
      \* the newlines of a run beyond its second are dropped
      kept == SelectSeq([i \in 1..Len(plain) |-> i],
                        LAMBDA i : ~(/\ i > 2
                                     /\ plain[i] = "\n"
                                     /\ plain[i - 1] = "\n"
                                     /\ plain[i - 2] = "\n"))
  IN  Trim([k \in 1..Len(kept) |-> plain[kept[k]]])

\* Math.ceil(text.length / 4)
estimateTokens(text) == (Len(text) + 3) \div 4

\* files ... .filter(...).sort(): the names of the sources, in order
IsSource(name) ==
  /\ EndsWithMd(name)
  /\ name # <<"g", "u", "a", "r", "d", "r", "a", "i", "l", "s", ".", "m", "d">>

\* the names in the order readdirSync returned them
SourceFilesUnsorted(listing) == SelectSeq(listing, IsSource)

SourceFiles(listing) ==
  LET kept == SelectSeq(listing, IsSource)
      names == {kept[i] : i \in 1..Len(kept)}
      Sorted[done \in SUBSET names] ==
        IF done = names THEN <<>>
        ELSE LET least == CHOOSE n \in names \ done :
                            \A m \in names \ done : m = n \/ TextLess(n, m)
             IN  <<least>> \o Sorted[done \cup {least}]
  IN  Sorted[{}]

\* the documents of one source file, every title with its part
DocumentsOfFileAlwaysPart(file, maxChars, overlapChars) ==
  LET base == StripMdSuffix(file.name)
      title == IF file.meta.title # <<>> THEN file.meta.title
               ELSE UnderscoresToSpaces(base)
      Documents(chunks, baseId) ==
        [index \in 1..Len(chunks) |->
           [id |-> baseId \o <<"-">> \o ToDecimal(index),
            title |-> title \o <<" (Part ">> \o ToDecimal(index) \o <<")">>,
            url |-> file.meta.source_url,
            content |-> chunks[index],
            section |-> base,
            tags |-> file.meta.tags,
            token_estimate |-> estimateTokens(chunks[index])]]
      OfBody(cleanBody) ==
        IF cleanBody = <<>> THEN <<>>
        ELSE Documents(chunkText(cleanBody, maxChars, overlapChars), slugify(base))
  IN  OfBody(stripMarkdown(file.body))

\* the documents of one source file, the loop body of buildDocuments
DocumentsOfFile(file, maxChars, overlapChars) ==
  LET base == StripMdSuffix(file.name)
      title == IF file.meta.title # <<>> THEN file.meta.title
               ELSE UnderscoresToSpaces(base)
      Documents(chunks, baseId) ==
        [index \in 1..Len(chunks) |->
           [id |-> baseId \o <<"-">> \o ToDecimal(index),
            title |-> IF Len(chunks) > 1
                        THEN title \o <<" (Part ">> \o ToDecimal(index) \o <<")">>
                        ELSE title,
            url |-> file.meta.source_url,
            content |-> chunks[index],
            section |-> base,
            tags |-> file.meta.tags,
            token_estimate |-> estimateTokens(chunks[index])]]
      OfBody(cleanBody) ==
        IF cleanBody = <<>> THEN <<>>
        ELSE Documents(chunkText(cleanBody, maxChars, overlapChars), slugify(base))
  IN  OfBody(stripMarkdown(file.body))

\* buildDocuments over the knowledge directory dir, a set of files, whose
\* names readdirSync returns in the order of listing
buildDocuments(dir, listing, maxChars, overlapChars) ==
  LET files == SourceFiles(listing)
      FileNamed(name) == CHOOSE f \in dir : f.name = name
      F[i \in 0..Len(files)] ==
        IF i = 0 THEN <<>>
        ELSE F[i - 1] \o DocumentsOfFile(FileNamed(files[i]), maxChars, overlapChars)
  IN  F[Len(files)]

(***************************************************************************)
(* The knowledge build script: FAQ list and guardrail text                 *)
(***************************************************************************)
\* a value of faq.json is a record [type, items]; an item a record
\* [type, id, prompts, answer, sources] with id a text, <<>> when it has none;
\* prompts and sources are records [type, items], an answer a record
\* [type, text]
NoValue == [type |-> "missing", items |-> <<>>]

NoText == [type |-> "missing", text |-> <<>>]

ArrayOf(items) == [type |-> "array", items |-> items]

TextOf(text) == [type |-> "string", text |-> text]

\* FAQ "${item.id || 'unknown'}"
FaqLabel(item) ==
  <<"FAQ \"">> \o (IF item.id = <<>> THEN <<"unknown">> ELSE item.id) \o <<"\"">>

\* the message validateFaqs throws, <<>> when it returns
validateFaqs(faqs) ==
  LET ErrorOf(item) ==
        IF item.type # "object" THEN <<"Each FAQ item must be an object.">>
        ELSE IF item.prompts.type # "array" \/ Len(item.prompts.items) = 0
          THEN FaqLabel(item) \o <<" must include prompts[].">>
        ELSE IF item.answer.type # "string" \/ Trim(item.answer.text) = <<>>
          THEN FaqLabel(item) \o <<" must include answer.">>
        ELSE <<>>
      bad == IF faqs.type = "array"
               THEN {i \in 1..Len(faqs.items) : ErrorOf(faqs.items[i]) # <<>>}
               ELSE {}
  IN  IF faqs.type # "array" THEN <<"knowledge/faq.json must be an array.">>
      ELSE IF bad = {} THEN <<>>
      ELSE ErrorOf(faqs.items[CHOOSE i \in bad : \A j \in bad : i <= j])

\* the list validateFaqs leaves: item.sources = [] where it was no array
WithSources(faqs) ==
  [faqs EXCEPT !.items =
     [i \in 1..Len(faqs.items) |->
        IF faqs.items[i].sources.type = "array" THEN faqs.items[i]
        ELSE [faqs.items[i] EXCEPT !.sources = ArrayOf(<<>>)]]]

\* buildFaqs: [error, faqs] for the content of knowledge/faq.json, which is
\* absent, a text that JSON.parse rejects, or a value
buildFaqs(file) ==
  IF file.kind = "absent" THEN [error |-> <<>>, faqs |-> ArrayOf(<<>>)]
  ELSE IF file.kind = "unparsable"
    THEN [error |-> <<"Unexpected token">>, faqs |-> ArrayOf(<<>>)]
  ELSE IF validateFaqs(file.value) # <<>>
    THEN [error |-> validateFaqs(file.value), faqs |-> ArrayOf(<<>>)]
  ELSE [error |-> <<>>, faqs |-> WithSources(file.value)]

\* buildGuardrails for the body of knowledge/guardrails.md, <<>> when absent
buildGuardrails(file) ==
  IF file = <<>> THEN <<>> ELSE stripMarkdown(file[1])

(***************************************************************************)
(* The embedding build script                                              *)
(***************************************************************************)
MODEL == "text-embedding-3-small"

\* `${doc.title || ''}\n${doc.content || ''}`
InputText(doc) == doc.title \o <<"\n">> \o doc.content

\* the SHA-256 digest of a text, taken as free of collisions: the digest is
\* the text under a tag, equal for equal texts only
contentHash(text) == [sha256 |-> text]

\* existing.items of main: the file's items, none without a file
ExistingItems(file) == IF file = <<>> THEN <<>> ELSE file[1].items

\* existingMap.get(id) as <<record>>, <<>> when the map has no such key; a
\* later record of an id replaces an earlier one
CachedRecord(existing, id) ==
  LET at == {k \in 1..Len(existing) : existing[k].id = id}
  IN  IF at = {} THEN <<>>
      ELSE <<existing[CHOOSE k \in at : \A j \in at : j <= k]>>

\* a record of the id, whatever its hash
ReusableWhateverHash(existing, doc) == CachedRecord(existing, doc.id) # <<>>

\* cached && cached.hash === hash && Array.isArray(cached.embedding)
Reusable(existing, doc) ==
  /\ CachedRecord(existing, doc.id) # <<>>
  /\ CachedRecord(existing, doc.id)[1].hash = contentHash(InputText(doc))

\* items after the loop over docs: the records taken from the prior index
ReusedItems(docs, existing) ==
  LET Records(kept) ==
        [k \in 1..Len(kept) |->
           [id |-> kept[k].id,
            hash |-> contentHash(InputText(kept[k])),
            embedding |-> CachedRecord(existing, kept[k].id)[1].embedding]]
  IN  Records(SelectSeq(docs, LAMBDA doc : Reusable(existing, doc)))

\* pendingDocs after the loop over docs
PendingDocs(docs, existing) ==
  LET Entries(rest) ==
        [k \in 1..Len(rest) |->
           [id |-> rest[k].id,
            inputText |-> InputText(rest[k]),
            hash |-> contentHash(InputText(rest[k]))]]
  IN  Entries(SelectSeq(docs, LAMBDA doc : ~Reusable(existing, doc)))

\* pendingDocs.slice(i, i + BATCH_SIZE)
BatchAt(pending, i, size) == SubSeq(pending, i + 1, Min(i + size, Len(pending)))

\* batch.map((d) => d.inputText)
InputsOf(batch) == [k \in 1..Len(batch) |-> batch[k].inputText]

\* the items in the order in which the run collected them
OrderedItemsAsCollected(docs, items) == items

\* orderedItems: for each document the last item of its id, the documents
\* without an item dropped
OrderedItems(docs, items) ==
  LET Found(withItem) ==
        [k \in 1..Len(withItem) |-> CachedRecord(items, withItem[k].id)[1]]
  IN  Found(SelectSeq(docs, LAMBDA doc : CachedRecord(items, doc.id) # <<>>))

\* the vector the provider computes for an input in the given run of the
\* script; the provider's model may change between runs
VectorOf(input, run) == <<Len(input), run>>

ResponseItem(input, run) == [isArray |-> TRUE, embedding |-> VectorOf(input, run)]

NoVectorItem == [isArray |-> FALSE, embedding |-> <<>>]

\* what getEmbeddings can give for the inputs: the request fails; one item
\* per input; an item short; an item more; no item; an item without vector
ProviderResponses(inputs, run) ==
  LET good == [k \in 1..Len(inputs) |-> ResponseItem(inputs[k], run)]
  IN  {[thrown |-> TRUE, items |-> <<>>],
       [thrown |-> FALSE, items |-> good],
       [thrown |-> FALSE, items |-> SubSeq(good, 1, Len(good) - 1)],
       [thrown |-> FALSE, items |-> Append(good, good[1])],
       [thrown |-> FALSE, items |-> <<>>]}
      \cup {[thrown |-> FALSE, items |-> [good EXCEPT ![j] = NoVectorItem]] :
              j \in 1..Len(good)}

\* the items of a batch without a vector
WithoutVector(items) == {j \in 1..Len(items) : ~items[j].isArray}

\* the message of the error that the response to a batch raises in main,
\* <<>> when it raises none
BatchError(batch, response) ==
  IF response.thrown THEN <<"Request failed">>
  ELSE IF Len(response.items) # Len(batch)
    THEN <<"Embedding API returned unexpected batch response shape.">>
  ELSE IF WithoutVector(response.items) # {}
    THEN <<"Failed to get embedding for doc id=">>
           \o batch[CHOOSE j \in WithoutVector(response.items) :
                      \A k \in WithoutVector(response.items) : j <= k].id
  ELSE <<>>

\* the items main pushes for a batch: all, or those before the first item
\* without a vector
BatchItems(batch, response) ==
  LET upTo == IF WithoutVector(response.items) = {} THEN Len(batch)
              ELSE (CHOOSE j \in WithoutVector(response.items) :
                      \A k \in WithoutVector(response.items) : j <= k) - 1
  IN  IF response.thrown \/ Len(response.items) # Len(batch) THEN <<>>
      ELSE [j \in 1..upTo |->
              [id |-> batch[j].id, hash |-> batch[j].hash,
               embedding |-> response.items[j].embedding]]

(***************************************************************************)
(* The knowledge artifacts the server loads, the questions asked and the   *)
(* answers of the two providers: the inputs of the model                   *)
(***************************************************************************)
DocDiet ==
  [id |-> "diet-1", title |-> <<"d", "i", "e", "t">>,
   url |-> "https://example.org/diet",
   content |-> <<"d", "i", "e", "t", " ", "t", "i", "p", "s">>]

DocPcos ==
  [id |-> "pcos-1", title |-> <<"p", "c", "o", "s">>,
   url |-> "https://example.org/pcos",
   content |-> <<"p", "c", "o", "s", " ", "d", "i", "e", "t">>]

DocCare ==
  [id |-> "pcos-2", title |-> <<"p", "c", "o", "s">>,
   url |-> "https://example.org/pcos",
   content |-> <<"p", "c", "o", "s", " ", "c", "a", "r", "e">>]

Documents == <<DocDiet, DocPcos, DocCare>>

\* an embedding index with records for only some documents
PartialEmbeddings == [id \in {"diet-1", "pcos-1"} |->
                        IF id = "diet-1" THEN <<1, 0>> ELSE <<0, 1>>]

\* no embeddings.json, or one without items: ragEmbeddingsById is null or an
\* empty Map, which retrieveContext does not tell apart
NoEmbeddings == [id \in {} |-> <<>>]

FaqPcos ==
  [id |-> "what-is-pcos",
   prompts |-> << <<"w", "h", "a", "t", " ", "i", "s", " ", "p", "c", "o", "s">> >>,
   answer |-> <<"PCOS is a common hormonal condition.">>,
   sources |-> <<[title |-> <<"p", "c", "o", "s">>, url |-> "https://example.org/pcos"]>>]

Faqs == <<FaqPcos>>

\* the index states a server can start with
IndexStates ==
  { [docs |-> <<>>, embeddings |-> NoEmbeddings],
    [docs |-> Documents, embeddings |-> NoEmbeddings],
    [docs |-> Documents, embeddings |-> PartialEmbeddings] }

\* matches a guardrail pattern, shorter than the minimum length
QShortMg == <<"m", "g", "?">>

\* matches the guardrail pattern \bdose\b
QDoseDiet == <<"d", "o", "s", "e", " ", "d", "i", "e", "t">>

\* no \b between "dose" and "_": matches no guardrail pattern
QDoseUnderscoreDiet == <<"d", "o", "s", "e", "_", "d", "i", "e", "t">>

\* the same question in another case, spacing and punctuation
QDoseDietVariant == <<" ", "D", "o", "s", "e", "_", "d", "i", "e", "t", "?">>

\* the one prompt of the FAQ entry
QWhatIsPcos == <<"w", "h", "a", "t", " ", "i", "s", " ", "p", "c", "o", "s">>

\* QDoseUnderscoreDiet and question marks up to one character over the limit
QTooLong ==
  [i \in 1..(MaxQuestionLength + 1) |->
     IF i <= Len(QDoseUnderscoreDiet) THEN QDoseUnderscoreDiet[i] ELSE "?"]

\* req.body.question of the requests
Questions ==
  {QShortMg, QDoseDiet, QDoseUnderscoreDiet, QDoseDietVariant, QWhatIsPcos, QTooLong}

\* a question with another normal form, and so another cache key
QPcosCare == <<"p", "c", "o", "s", " ", "c", "a", "r", "e">>

\* the requests of a server that is asked questions of two cache keys
TwoKeyQuestions == {QDoseUnderscoreDiet, QPcosCare}

\* a second entry with the tokens of the prompt of FaqPcos
FaqPcosAlt ==
  [id |-> "pcos-basics",
   prompts |->
    <<
      <<"W", "h", "a", "t", " ", "i", "s", " ", "P", "C", "O", "S", "?">>
    >>,
   answer |-> <<"PCOS stands for polycystic ovary syndrome.">>,
   sources |-> <<[title |-> <<"p", "c", "o", "s">>, url |-> "https://example.org/pcos"]>>]

\* an entry with two prompts
FaqSymptoms ==
  [id |-> "pcos-symptoms",
   prompts |->
    <<
      <<"p", "c", "o", "s", " ", "s", "y", "m", "p", "t", "o", "m", "s">>,
      <<"s", "i", "g", "n", "s", " ", "o", "f", " ", "p", "c", "o", "s">>
    >>,
   answer |-> <<"Common signs are irregular periods and acne.">>,
   sources |-> <<[title |-> <<"p", "c", "o", "s">>, url |-> "https://example.org/pcos"]>>]

\* an entry whose prompt has seven tokens
FaqChanges ==
  [id |-> "pcos-changes",
   prompts |->
    <<
      <<"c", "a", "n", " ", "p", "c", "o", "s", " ", "c", "a", "u", "s", "e", " ", "w", "e", "i", "g", "h", "t", " ", "g", "a", "i", "n", " ", "a", "c", "n", "e", " ", "h", "a", "i", "r">>
    >>,
   answer |-> <<"PCOS can come with weight and skin changes.">>,
   sources |-> <<[title |-> <<"p", "c", "o", "s">>, url |-> "https://example.org/pcos"]>>]

\* an entry whose prompts have no token of more than two characters
FaqBlank ==
  [id |-> "blank",
   prompts |->
    <<
      <<"i", "s", " ", "i", "t", " ", "o", "k">>,
      <<>>
    >>,
   answer |-> <<"Yes.">>,
   sources |-> <<[title |-> <<"c", "a", "r", "e">>, url |-> "https://example.org/care"]>>]

\* the FAQ lists a server can load from faqs.json
FaqLists ==
  { <<>>, <<FaqPcos>>, <<FaqPcos, FaqPcosAlt>>, <<FaqPcosAlt, FaqPcos>>,
    <<FaqSymptoms, FaqPcos>>, <<FaqPcos, FaqSymptoms, FaqChanges>>,
    <<FaqChanges>>, <<FaqSymptoms, FaqChanges>>, <<FaqBlank, FaqPcos>>,
    <<FaqBlank>> }

\* the tokens of 'what is pcos', one of them twice
QPcosWhatWhat ==
  <<"P", "C", "O", "S", " ", "w", "h", "a", "t", ",", " ", "w", "h", "a",
    "t", "?">>

\* one token of the two of 'what is pcos': a score of 1/2
QPcos ==
  <<"p", "c", "o", "s">>

\* two tokens of three in common with two prompts: a score of 2/3
QWhatPcosSymptoms ==
  <<"w", "h", "a", "t", " ", "p", "c", "o", "s", " ", "s", "y", "m", "p",
    "t", "o", "m", "s">>

\* the second prompt of FaqSymptoms
QSignsOfPcos ==
  <<"s", "i", "g", "n", "s", " ", "o", "f", " ", "p", "c", "o", "s">>

\* the first prompt of FaqSymptoms, in another case and punctuation
QPcosSymptoms ==
  <<"P", "C", "O", "S", " ", "s", "y", "m", "p", "t", "o", "m", "s", "?">>

\* ten tokens, the seven of the prompt of FaqChanges among them: 7/10
QChangesTen ==
  <<"c", "a", "n", " ", "p", "c", "o", "s", " ", "c", "a", "u", "s", "e",
    " ", "w", "e", "i", "g", "h", "t", " ", "g", "a", "i", "n", " ", "a",
    "c", "n", "e", " ", "h", "a", "i", "r", " ", "l", "o", "s", "s", " ",
    "m", "o", "o", "d", " ", "c", "h", "a", "n", "g", "e", "s">>

\* six of the seven tokens of the prompt of FaqChanges: 6/7
QChangesSix ==
  <<"c", "a", "n", " ", "p", "c", "o", "s", " ", "c", "a", "u", "s", "e",
    " ", "w", "e", "i", "g", "h", "t", " ", "g", "a", "i", "n", " ", "a",
    "c", "n", "e">>

\* five of the seven: 5/7
QChangesFive ==
  <<"c", "a", "n", " ", "p", "c", "o", "s", " ", "c", "a", "u", "s", "e",
    " ", "w", "e", "i", "g", "h", "t", " ", "g", "a", "i", "n">>

\* four of the seven: 4/7
QChangesFour ==
  <<"c", "a", "n", " ", "p", "c", "o", "s", " ", "c", "a", "u", "s", "e",
    " ", "w", "e", "i", "g", "h", "t">>

\* no token of more than two characters
QIsItOk ==
  <<"i", "s", " ", "i", "t", " ", "o", "k">>

\* two tokens of three in common with 'what is pcos'
QWhatPcosCare ==
  <<"w", "h", "a", "t", " ", "i", "s", " ", "p", "c", "o", "s", " ", "c",
    "a", "r", "e">>

\* the requests of a server that is asked questions near its FAQ prompts
FaqQuestions ==
  { QWhatIsPcos, QPcosWhatWhat, QPcos, QWhatPcosSymptoms, QSignsOfPcos,
    QPcosSymptoms, QChangesTen, QChangesSix, QChangesFive,
    QChangesFour, QIsItOk, QWhatPcosCare }

\* what the embedding provider call of getEmbedding ends with
EmbeddingOutcomes ==
  { [kind |-> "error", vector |-> <<>>],
    [kind |-> "timeout", vector |-> <<>>],
    [kind |-> "novector", vector |-> <<>>],
    [kind |-> "vector", vector |-> <<1, 0>>],
    [kind |-> "vector", vector |-> <<0, 0>>] }

DocTips ==
  [id |-> "tips-1", title |-> <<"t", "i", "p", "s">>,
   url |-> "https://example.org/tips",
   content |-> <<"c", "a", "r", "e", " ", "t", "i", "p", "s">>]

\* the documents of documents.json in three orders, the third with one more
DocumentLists ==
  { Documents, <<DocCare, DocPcos, DocDiet>>, <<DocPcos, DocCare, DocDiet, DocTips>> }

\* records of the same direction for three documents
EqualEmbeddings ==
  [id \in {"diet-1", "pcos-1", "pcos-2"} |->
     IF id = "pcos-1" THEN <<2, 0>> ELSE <<1, 0>>]

\* a record of zero norm, one of another dimension, and two ordinary ones
DegenerateEmbeddings ==
  [id \in {"diet-1", "pcos-1", "pcos-2", "tips-1"} |->
     IF id = "diet-1" THEN <<0, 0>>
     ELSE IF id = "pcos-1" THEN <<1, 0, 0>>
     ELSE IF id = "pcos-2" THEN <<1, 1>>
     ELSE <<0, 1>>]

\* the index states of a server whose retrieval is exercised
RetrievalIndexes ==
  { [docs |-> docs, embeddings |-> embeddings] :
      docs \in DocumentLists,
      embeddings \in {NoEmbeddings, PartialEmbeddings, EqualEmbeddings,
                      DegenerateEmbeddings} }

\* the two tokens of the content of DocPcos
QPcosDiet ==
  <<"p", "c", "o", "s", " ", "d", "i", "e", "t">>

\* one token
QTips ==
  <<"t", "i", "p", "s">>

\* four tokens
QCareTipsPcosDiet ==
  <<"c", "a", "r", "e", " ", "t", "i", "p", "s", " ", "p", "c", "o", "s",
    " ", "d", "i", "e", "t">>

\* a token of no document
QSleep ==
  <<"s", "l", "e", "e", "p">>

\* the two tokens of the content of DocTips
QCareTips ==
  <<"c", "a", "r", "e", " ", "t", "i", "p", "s">>

\* the requests of a server whose retrieval is exercised
RetrievalQuestions ==
  { QDoseUnderscoreDiet, QPcosCare, QIsItOk, QPcosDiet, QTips, QCareTips,
    QCareTipsPcosDiet, QSleep }

\* what the embedding provider answers them with
RetrievalOutcomes ==
  { [kind |-> "error", vector |-> <<>>],
    [kind |-> "vector", vector |-> <<1, 0>>],
    [kind |-> "vector", vector |-> <<1, 1>>],
    [kind |-> "vector", vector |-> <<0 - 1, 0>>],
    [kind |-> "vector", vector |-> <<0, 0>>],
    [kind |-> "vector", vector |-> <<1, 0, 0>>] }

\* what the generation provider call of generateChatAnswer ends with;
\* "nocontent" is a response without choices[0].message.content
GenerationOutcomes ==
  { [kind |-> "error", content |-> <<>>],
    [kind |-> "timeout", content |-> <<>>],
    [kind |-> "nocontent", content |-> <<>>],
    [kind |-> "content", content |-> <<" ", "a">>] }

(***************************************************************************)
(* Bounds of the model                                                     *)
(***************************************************************************)
\* requests suspended at a provider call at the same time
MaxInFlight == 2

\* the clock reads k * ttlMs + j ms, j up to MaxShortTicks, k up to MaxLongTicks
MaxShortTicks == 1

MaxLongTicks == 1

\* writes of the cache file that fail in a row
MaxWriteFailures == 1

(***************************************************************************)
(* The pure functions above on the inputs of the model, evaluated once     *)
(***************************************************************************)
\* String(req.body?.question || '').trim()
\* a question that is the name of a property of Object.prototype, and the
\* same in another spelling
QConstructor == <<"c", "o", "n", "s", "t", "r", "u", "c", "t", "o", "r">>

QConstructorAsked == <<"C", "o", "n", "s", "t", "r", "u", "c", "t", "o", "r", "?">>

PlainObjectQuestions == {QConstructor, QConstructorAsked, QWhatIsPcos, QPcosCare}

AllQuestions ==
  Questions \cup TwoKeyQuestions \cup FaqQuestions \cup RetrievalQuestions
    \cup PlainObjectQuestions

questionOf == [raw \in AllQuestions |-> Trim(raw)]

AskedQuestions == {questionOf[raw] : raw \in AllQuestions}

lengthOk(question) ==
  ~(Len(question) < MinQuestionLength \/ Len(question) > MaxQuestionLength)

AcceptedQuestions == {q \in AskedQuestions : lengthOk(q)}

blockedOf == [q \in AcceptedQuestions |-> isBlockedMedicalQuestion(q)]

FaqStates == {Faqs}

faqHitOf ==
  [faqs \in FaqStates \cup FaqLists |->
     [q \in AcceptedQuestions |-> findFaqAnswer(q, faqs)]]

\* a cache key that is the question as it was asked
CacheKeyRaw(question) == question

\* const cacheKey = normalizeText(question)
CacheKeyOf(question) == normalizeText(question)

cacheKeyOf == [q \in AcceptedQuestions |-> CacheKeyOf(q)]

keywordOf ==
  [index \in IndexStates \cup RetrievalIndexes |->
     [q \in AcceptedQuestions |->
        retrieveByKeyword(q, CHATBOT_CONTEXT_CHUNKS, index.docs)]]

afterEmbeddingOf ==
  [index \in IndexStates \cup RetrievalIndexes |->
     [q \in AcceptedQuestions |->
        [outcome \in EmbeddingOutcomes \cup RetrievalOutcomes |->
           RetrieveAfterEmbedding(q, CHATBOT_CONTEXT_CHUNKS, index.docs,
                                  index.embeddings, outcome)]]]

(***************************************************************************)
(* State                                                                   *)
(***************************************************************************)
VARIABLES
  CHATBOT_ENABLED,     \* process.env.CHATBOT_ENABLED === 'true'
  OPENAI_API_KEY,      \* "" when not configured
  ragDocuments,
  ragFaqs,
  ragEmbeddingsById,
  chatCache,           \* cacheKey -> [answer, sources, timestamp]
  cacheFile,           \* the content of CHAT_CACHE_FILE
  writeFailures,       \* the last writes of the cache file that failed in a row
  now,                 \* Date.now()
  requests,            \* the bag of handler invocations suspended at an await
  completed,           \* the request answered in the current turn, if any
  cacheFileAtStartup   \* what loadChatData found in CHAT_CACHE_FILE

\* the knowledge build script: its sources, its settings, its outputs
VARIABLES
  knowledgeFiles,      \* the files of KNOWLEDGE_DIR, records [name, meta, body]
  faqJson,             \* knowledge/faq.json
  guardrailsMd,        \* knowledge/guardrails.md: <<>> or <<body>>
  MAX_CHARS,
  OVERLAP_CHARS,
  documentsJson,       \* OUTPUT_DOCS: <<>> when absent, <<documents>> otherwise
  faqsJson,            \* OUTPUT_FAQS
  guardrailsTxt,       \* OUTPUT_GUARDRAILS
  knowledgeExit        \* how the last run of the script ended

\* the embedding build script
VARIABLES
  BATCH_SIZE,
  embeddingsJson,      \* the embedding index file: <<>> or <<[model, items]>>
  embedPc,             \* "idle", "awaiting", "done", "failed"
  embedExit,           \* how the last run of the script ended
  embedDocs,           \* docs of main
  embedItems,          \* items of main
  pendingDocs,
  batchStart,          \* i of the batch loop
  embedInFlight,       \* the provider requests without a response yet
  embedSent            \* the inputs of the provider requests made, in order

\* the contact form handler: its settings, its requests, the mail it sent
VARIABLES
  RECAPTCHA_PROJECT_ID,    \* process.env values, "" when not set
  RECAPTCHA_API_KEY,
  RECAPTCHA_SITE_KEY,
  MAIL_FROM,
  SMTP_USER,
  SEND_CONFIRMATION_EMAIL, \* process.env.SEND_CONFIRMATION_EMAIL === 'true'
  contactStarted,          \* the number of requests the handler was started for
  contactRequests,         \* the handler invocations suspended at an await
  contactReplies,          \* the requests answered, with their responses
  outbox                   \* the calls of transporter.sendMail, in order

\* the hard slice of chunkText, one turn of its while loop at a time
VARIABLES
  hardSlice                \* [pc, paragraph, start, chunks]

knowledgeVars ==
  <<knowledgeFiles, faqJson, guardrailsMd, MAX_CHARS, OVERLAP_CHARS,
    faqsJson, guardrailsTxt, knowledgeExit>>

embedVars ==
  <<BATCH_SIZE, embeddingsJson, embedPc, embedExit, embedDocs, embedItems, pendingDocs,
    batchStart, embedInFlight, embedSent>>

contactConfig ==
  <<RECAPTCHA_PROJECT_ID, RECAPTCHA_API_KEY, RECAPTCHA_SITE_KEY, MAIL_FROM, SMTP_USER,
    SEND_CONFIRMATION_EMAIL>>

contactVars ==
  <<contactConfig, contactStarted, contactRequests, contactReplies, outbox>>

chatVars ==
  <<CHATBOT_ENABLED, ragDocuments, ragFaqs, ragEmbeddingsById,
    chatCache, cacheFile, writeFailures, now, requests, completed,
    cacheFileAtStartup>>

serverVars == <<chatVars, contactVars>>

vars ==
  <<CHATBOT_ENABLED, OPENAI_API_KEY, ragDocuments, ragFaqs, ragEmbeddingsById,
    chatCache, cacheFile, writeFailures, now, requests, completed,
    cacheFileAtStartup, knowledgeVars, documentsJson, embedVars, contactVars,
    hardSlice>>

config ==
  <<CHATBOT_ENABLED, OPENAI_API_KEY, ragDocuments, ragFaqs, ragEmbeddingsById,
    cacheFileAtStartup, knowledgeVars, documentsJson, embedVars, contactVars,
    hardSlice>>

AbsentFile == [kind |-> "absent", value |-> [type |-> "missing", items |-> <<>>]]

\* knowledgeExit before the first run; run counts the runs that ended
NotRun == [code |-> -1, error |-> <<>>, run |-> 0]

\* no build script runs while the server is observed
IdleBuilds ==
  /\ knowledgeFiles = {}
  /\ faqJson = AbsentFile
  /\ guardrailsMd = <<>>
  /\ MAX_CHARS = 1800
  /\ OVERLAP_CHARS = 260
  /\ documentsJson = <<>>
  /\ faqsJson = <<>>
  /\ guardrailsTxt = <<>>
  /\ knowledgeExit = NotRun
  /\ BATCH_SIZE = 20
  /\ embeddingsJson = <<>>
  /\ embedPc = "idle"
  /\ embedExit = NotRun
  /\ embedDocs = <<>>
  /\ embedItems = <<>>
  /\ pendingDocs = <<>>
  /\ batchStart = 0
  /\ embedInFlight = {}
  /\ embedSent = <<>>

\* chunkText is in no hard slice
NotSlicing == [pc |-> "idle", paragraph |-> <<>>, start |-> 0, chunks |-> <<>>]

\* no contact form is submitted
IdleContact ==
  /\ RECAPTCHA_PROJECT_ID = ""
  /\ RECAPTCHA_API_KEY = ""
  /\ RECAPTCHA_SITE_KEY = ""
  /\ MAIL_FROM = <<>>
  /\ SMTP_USER = <<>>
  /\ SEND_CONFIRMATION_EMAIL = FALSE
  /\ contactStarted = 0
  /\ contactRequests = {}
  /\ contactReplies = <<>>
  /\ outbox = <<>>

\* the server is not observed while a build script runs
IdleServer ==
  /\ CHATBOT_ENABLED = FALSE
  /\ ragDocuments = <<>>
  /\ ragFaqs = <<>>
  /\ ragEmbeddingsById = [k \in {} |-> <<>>]
  /\ chatCache = [k \in {} |-> <<>>]
  /\ cacheFile = [k \in {} |-> <<>>]
  /\ writeFailures = 0
  /\ now = 0
  /\ requests = EmptyBag
  /\ completed = <<>>
  /\ cacheFileAtStartup = "missing"

\* the index the server loaded
ragIndex == [docs |-> ragDocuments, embeddings |-> ragEmbeddingsById]

EmptyCache == [k \in {} |-> <<>>]

\* an entry an earlier run of the server left in the cache file
StoredEntry ==
  [answer |-> <<"stored answer">>,
   sources |-> <<[title |-> <<"d", "i", "e", "t">>, url |-> "https://example.org/diet"]>>,
   timestamp |-> 0]

\* the cache of an earlier run, which had no FAQ entry yet: entries under the
\* normal forms of QDoseUnderscoreDiet and of QWhatIsPcos
StoredCache ==
  [k \in {<<"d", "o", "s", "e", " ", "d", "i", "e", "t">>,
          <<"w", "h", "a", "t", " ", "i", "s", " ", "p", "c", "o", "s">>} |->
     StoredEntry]

\* what CHAT_CACHE_FILE can hold when the server starts: no file, a text that
\* JSON.parse rejects, the JSON text null, the JSON text of a cache
CacheFileKinds == {"missing", "unparsable", "null", "entries"}

\* loadJsonFile(CHAT_CACHE_FILE, {}): the fallback when the file is missing or
\* JSON.parse throws, the parsed value otherwise; for the file "null" the
\* value is null, which ChatCacheIsNull tells and chatCache does not hold
loadJsonFile(kind, parsed, fallback) ==
  IF kind \in {"missing", "unparsable"} THEN fallback
  ELSE IF kind = "null" THEN fallback
  ELSE parsed

\* chatCache is null: no request writes it, so it stays null
ChatCacheIsNull == cacheFileAtStartup = "null"

Init ==
  /\ CHATBOT_ENABLED \in BOOLEAN
  /\ OPENAI_API_KEY \in {"", "sk-key"}
  /\ \E index \in IndexStates :
       /\ ragDocuments = index.docs
       /\ ragEmbeddingsById = index.embeddings
  /\ ragFaqs \in FaqStates
  /\ cacheFileAtStartup = "missing"
  /\ chatCache = loadJsonFile(cacheFileAtStartup, EmptyCache, EmptyCache)
  /\ cacheFile = EmptyCache
  /\ writeFailures = 0
  /\ now = 0
  /\ requests = EmptyBag
  /\ completed = <<>>
  /\ IdleBuilds
  /\ IdleContact
  /\ hardSlice = NotSlicing

\* the server starts on a cache file of any kind, with a provider credential
\* or without, on an index with embeddings for some of the documents
InitStartup ==
  /\ CHATBOT_ENABLED = TRUE
  /\ OPENAI_API_KEY \in {"", "sk-key"}
  /\ ragDocuments = Documents
  /\ ragEmbeddingsById = PartialEmbeddings
  /\ ragFaqs \in FaqStates
  /\ cacheFileAtStartup \in CacheFileKinds
  /\ chatCache = loadJsonFile(cacheFileAtStartup, StoredCache, EmptyCache)
  /\ cacheFile = IF cacheFileAtStartup = "entries" THEN StoredCache ELSE EmptyCache
  /\ writeFailures = 0
  /\ now = 0
  /\ requests = EmptyBag
  /\ completed = <<>>
  /\ IdleBuilds
  /\ IdleContact
  /\ hardSlice = NotSlicing

(***************************************************************************)
(* The answer cache                                                        *)
(***************************************************************************)
\* a staleness test that lets an item live 1 ms longer
CacheItemStaleLater(item, t) == t - item.timestamp > ttlMs + 1

\* the staleness test of getCachedAnswer
CacheItemStale(item, t) == t - item.timestamp > ttlMs

\* a cache read that never finds an item
getCachedAnswerNever(cache, cacheKey, t) == <<>>

\* chatCache is a plain object, {} or what JSON.parse returns: for a key it
\* has no entry under, chatCache[cacheKey] is the property of that name of
\* Object.prototype.  Of these names normalizeText can return one, the others
\* having capitals or underscores
ObjectPrototypeKeys ==
  { <<"c", "o", "n", "s", "t", "r", "u", "c", "t", "o", "r">> }

\* the function Object as getCachedAnswer and the handler read it: answer,
\* sources and timestamp are undefined, so Date.now() - item.timestamp is NaN
\* and the staleness test is false
InheritedItem == [answer |-> <<>>, sources |-> <<>>, timestamp |-> "undefined"]

\* a cache read that looks at the entries of the cache alone
getCachedAnswerOwn(cache, cacheKey, t) ==
  IF cacheKey \in DOMAIN cache /\ ~CacheItemStale(cache[cacheKey], t)
    THEN <<cache[cacheKey]>>
    ELSE <<>>

\* getCachedAnswer: the item returned, as a sequence of at most one item
getCachedAnswer(cache, cacheKey, t) ==
  IF cacheKey \in DOMAIN cache
    THEN IF ~CacheItemStale(cache[cacheKey], t) THEN <<cache[cacheKey]>> ELSE <<>>
  ELSE IF cacheKey \in ObjectPrototypeKeys THEN <<InheritedItem>>
  ELSE <<>>

\* getCachedAnswer deletes a stale item and saves the cache
EvictsOnRead(cache, cacheKey, t) ==
  cacheKey \in DOMAIN cache /\ CacheItemStale(cache[cacheKey], t)

\* an eviction that clears the cache of every entry
CacheAfterReadClears(cache, cacheKey, t) ==
  IF EvictsOnRead(cache, cacheKey, t)
    THEN [k \in {} |-> <<>>]
    ELSE cache

\* the cache after getCachedAnswer
CacheAfterRead(cache, cacheKey, t) ==
  IF EvictsOnRead(cache, cacheKey, t)
    THEN [k \in DOMAIN cache \ {cacheKey} |-> cache[k]]
    ELSE cache

\* a cache write that replaces the whole cache by the one entry
setCachedAnswerAlone(cache, cacheKey, value, t) ==
  [k \in {cacheKey} |->
     [answer |-> value.answer, sources |-> value.sources, timestamp |-> t]]

\* a cache write that keeps the entry a key already has
setCachedAnswerKeepsOld(cache, cacheKey, value, t) ==
  [k \in DOMAIN cache \cup {cacheKey} |->
     IF k \in DOMAIN cache
       THEN cache[k]
       ELSE [answer |-> value.answer, sources |-> value.sources, timestamp |-> t]]

\* setCachedAnswer: chatCache[cacheKey] = {...value, timestamp: Date.now()}
setCachedAnswer(cache, cacheKey, value, t) ==
  [k \in DOMAIN cache \cup {cacheKey} |->
     IF k = cacheKey
       THEN [answer |-> value.answer, sources |-> value.sources, timestamp |-> t]
       ELSE cache[k]]

\* saveChatCache: the file after writing cache to it; a failed write is logged
\* and leaves the file as it was
saveChatCache(cache, file, writeOk) == IF writeOk THEN cache ELSE file

\* the failed writes in a row after one more write
NextFailures(failures, writeOk) == IF writeOk THEN 0 ELSE failures + 1

(***************************************************************************)
(* Responses                                                               *)
(***************************************************************************)
ErrorResponse(status, message) ==
  [status |-> status, error |-> message, answer |-> <<>>, sources |-> <<>>,
   cached |-> FALSE]

AnswerResponse(answer, sources, cached) ==
  [status |-> 200, error |-> "", answer |-> answer, sources |-> sources,
   cached |-> cached]

GuardrailResponse == AnswerResponse(RefusalAnswer, <<>>, FALSE)

\* an FAQ answer marked as served from the cache
FaqResponseAsCached(faq) == AnswerResponse(faq.answer \o FaqDisclaimer, faq.sources, TRUE)

FaqResponse(faq) == AnswerResponse(faq.answer \o FaqDisclaimer, faq.sources, FALSE)

CachedResponse(item) == AnswerResponse(item.answer, item.sources, TRUE)

\* the text generateChatAnswer returns for a provider response
generateChatAnswer(outcome) ==
  IF outcome.kind = "content" /\ Trim(outcome.content) # <<>>
    THEN Trim(outcome.content)
    ELSE GenerationFallback

(***************************************************************************)
(* app.post('/api/chat'), cut at its suspension points                     *)
(***************************************************************************)
Frame(pc, question, contextItems, log) ==
  [pc |-> pc, question |-> question, contextItems |-> contextItems, log |-> log]

\* res.json(...): the handler ends.  abandoned: the caller went away while the
\* handler was suspended, which the handler never looks at
Reply(inFlight, question, contextItems, log, abandoned, response) ==
  /\ requests' = inFlight
  /\ completed' = <<[question |-> question, contextItems |-> contextItems,
                     log |-> log, abandoned |-> abandoned, response |-> response]>>

\* the handler stops at an await of a provider call
Suspend(inFlight, frame) ==
  /\ BagCardinality(inFlight) < MaxInFlight
  /\ requests' = inFlight (+) SetToBag({frame})
  /\ completed' = <<>>

\* a handler that writes the cache as soon as retrieval ends
AfterRetrievalWritesFirst(inFlight, question, contextItems, log, abandoned, cache, file, failures) ==
  \E writeOk \in BOOLEAN :
    LET written == setCachedAnswer(cache, cacheKeyOf[question],
                     [answer |-> noDataAnswer, sources |-> <<>>], now)
    IN  /\ chatCache' = written
        /\ cacheFile' = saveChatCache(written, file, writeOk)
        /\ writeFailures' = NextFailures(failures, writeOk)
        /\ IF Len(contextItems) = 0
             THEN Reply(inFlight, question, contextItems, log \o <<"cacheWrite">>,
                        abandoned, AnswerResponse(noDataAnswer, <<>>, FALSE))
             ELSE Suspend(inFlight, Frame("generation", question, contextItems,
                                          log \o <<"cacheWrite", "generation">>))

\* a handler that answers a question without context and leaves the cache
AfterRetrievalLeavesCache(inFlight, question, contextItems, log, abandoned, cache, file, failures) ==
  /\ chatCache' = cache
  /\ cacheFile' = file
  /\ writeFailures' = failures
  /\ IF Len(contextItems) = 0
       THEN Reply(inFlight, question, contextItems, log \o <<"cacheWrite">>,
                  abandoned, AnswerResponse(noDataAnswer, <<>>, FALSE))
       ELSE Suspend(inFlight, Frame("generation", question, contextItems,
                                    log \o <<"generation">>))

\* the handler from the end of retrieveContext to its next await or its end
AfterRetrieval(inFlight, question, contextItems, log, abandoned, cache, file, failures) ==
  IF Len(contextItems) = 0
    THEN \E writeOk \in BOOLEAN :
           LET written == setCachedAnswer(cache, cacheKeyOf[question],
                            [answer |-> noDataAnswer, sources |-> <<>>], now)
           IN  /\ chatCache' = written
               /\ cacheFile' = saveChatCache(written, file, writeOk)
               /\ writeFailures' = NextFailures(failures, writeOk)
               /\ Reply(inFlight, question, contextItems, log \o <<"cacheWrite">>,
                        abandoned, AnswerResponse(noDataAnswer, <<>>, FALSE))
    ELSE /\ chatCache' = cache
         /\ cacheFile' = file
         /\ writeFailures' = failures
         /\ Suspend(inFlight, Frame("generation", question, contextItems,
                                    log \o <<"generation">>))

\* a handler that stamps the entry it serves with the time of the read and
\* saves the cache
ServeCachedRefreshing(question, log, item) ==
  \E writeOk \in BOOLEAN :
    LET written == setCachedAnswer(chatCache, cacheKeyOf[question],
                     [answer |-> item.answer, sources |-> item.sources], now)
    IN  /\ chatCache' = written
        /\ cacheFile' = saveChatCache(written, cacheFile, writeOk)
        /\ writeFailures' = NextFailures(writeFailures, writeOk)
        /\ Reply(requests, question, <<>>, log, FALSE, CachedResponse(item))

\* the handler answers with the item getCachedAnswer returned
ServeCached(question, log, item) ==
  /\ Reply(requests, question, <<>>, log, FALSE, CachedResponse(item))
  /\ UNCHANGED <<chatCache, cacheFile, writeFailures>>

\* a handler that goes on to retrieval without looking for the credential
AfterCacheMissUnchecked(question, log, cache, file, failures) ==
  IF Len(ragDocuments) = 0
    THEN AfterRetrieval(requests, question, <<>>, log \o <<"retrieval">>, FALSE,
                        cache, file, failures)
  ELSE IF UsesVectorMode(OPENAI_API_KEY # "", ragDocuments, ragEmbeddingsById)
    THEN /\ chatCache' = cache
         /\ cacheFile' = file
         /\ writeFailures' = failures
         /\ Suspend(requests, Frame("embedding", question, <<>>,
                                    log \o <<"retrieval", "embedding">>))
  ELSE AfterRetrieval(requests, question, keywordOf[ragIndex][question],
                      log \o <<"retrieval">>, FALSE, cache, file, failures)

\* the handler from the cache miss on
AfterCacheMiss(question, log, cache, file, failures) ==
  IF OPENAI_API_KEY = ""
    THEN /\ chatCache' = cache
         /\ cacheFile' = file
         /\ writeFailures' = failures
         /\ Reply(requests, question, <<>>, log, FALSE,
                  ErrorResponse(503, ErrNotConfigured))
  ELSE IF Len(ragDocuments) = 0
    THEN AfterRetrieval(requests, question, <<>>, log \o <<"retrieval">>, FALSE,
                        cache, file, failures)
  ELSE IF UsesVectorMode(OPENAI_API_KEY # "", ragDocuments, ragEmbeddingsById)
    THEN /\ chatCache' = cache
         /\ cacheFile' = file
         /\ writeFailures' = failures
         /\ Suspend(requests, Frame("embedding", question, <<>>,
                                    log \o <<"retrieval", "embedding">>))
  ELSE AfterRetrieval(requests, question, keywordOf[ragIndex][question],
                      log \o <<"retrieval">>, FALSE, cache, file, failures)

\* a request arrives: the handler runs to its first await or to its response
ChatStart(raw) ==
  /\ completed = <<>>
  /\ LET question == questionOf[raw]
     IN  IF ~CHATBOT_ENABLED
           THEN /\ Reply(requests, question, <<>>, <<>>, FALSE,
                         ErrorResponse(503, ErrDisabled))
                /\ UNCHANGED <<chatCache, cacheFile, writeFailures>>
         ELSE IF ~lengthOk(question)
           THEN /\ Reply(requests, question, <<>>, <<>>, FALSE,
                         ErrorResponse(400, ErrLength))
                /\ UNCHANGED <<chatCache, cacheFile, writeFailures>>
         ELSE IF blockedOf[question]
           THEN /\ Reply(requests, question, <<>>, <<"guardrail">>, FALSE,
                         GuardrailResponse)
                /\ UNCHANGED <<chatCache, cacheFile, writeFailures>>
         ELSE IF faqHitOf[ragFaqs][question] # 0
           THEN /\ Reply(requests, question, <<>>, <<"guardrail", "faq">>, FALSE,
                         FaqResponse(ragFaqs[faqHitOf[ragFaqs][question]]))
                /\ UNCHANGED <<chatCache, cacheFile, writeFailures>>
         ELSE IF ChatCacheIsNull
           \* chatCache[cacheKey] throws a TypeError, which the handler catches
           THEN /\ Reply(requests, question, <<>>,
                         <<"guardrail", "faq", "cacheRead">>, FALSE,
                         ErrorResponse(500, ErrUnavailable))
                /\ UNCHANGED <<chatCache, cacheFile, writeFailures>>
         ELSE LET cacheKey == cacheKeyOf[question]
                  cached == getCachedAnswer(chatCache, cacheKey, now)
                  log == <<"guardrail", "faq", "cacheRead">>
              IN  IF cached # <<>>
                    THEN ServeCached(question, log, cached[1])
                  ELSE IF EvictsOnRead(chatCache, cacheKey, now)
                    THEN \E evictOk \in BOOLEAN :
                           AfterCacheMiss(question, log,
                             CacheAfterRead(chatCache, cacheKey, now),
                             saveChatCache(CacheAfterRead(chatCache, cacheKey, now),
                                           cacheFile, evictOk),
                             NextFailures(writeFailures, evictOk))
                  ELSE AfterCacheMiss(question, log, chatCache, cacheFile,
                                      writeFailures)
  /\ writeFailures' <= MaxWriteFailures
  /\ UNCHANGED <<config, now>>

\* the embedding provider call of a suspended request ends
EmbeddingReturn(f, outcome) ==
  /\ completed = <<>>
  /\ BagIn(f, requests)
  /\ f.pc = "embedding"
  /\ \E abandoned \in BOOLEAN :
       AfterRetrieval(requests (-) SetToBag({f}), f.question,
                      afterEmbeddingOf[ragIndex][f.question][outcome],
                      f.log, abandoned, chatCache, cacheFile, writeFailures)
  /\ writeFailures' <= MaxWriteFailures
  /\ UNCHANGED <<config, now>>

\* a handler that treats a failed generation call as a response without text
GenerationReturnUncaught(f, outcome) ==
  /\ completed = <<>>
  /\ BagIn(f, requests)
  /\ f.pc = "generation"
  /\ \E abandoned \in BOOLEAN, writeOk \in BOOLEAN :
       LET sources == buildSourceList(f.contextItems)
           finalAnswer == generateChatAnswer(outcome) \o AnswerDisclaimer
           written == setCachedAnswer(chatCache, cacheKeyOf[f.question],
                        [answer |-> finalAnswer, sources |-> sources], now)
       IN  /\ chatCache' = written
           /\ cacheFile' = saveChatCache(written, cacheFile, writeOk)
           /\ writeFailures' = NextFailures(writeFailures, writeOk)
           /\ Reply(requests (-) SetToBag({f}), f.question, f.contextItems,
                    f.log \o <<"cacheWrite">>, abandoned,
                    AnswerResponse(finalAnswer, sources, FALSE))
  /\ writeFailures' <= MaxWriteFailures
  /\ UNCHANGED <<config, now>>

\* the generation provider call of a suspended request ends
GenerationReturn(f, outcome) ==
  /\ completed = <<>>
  /\ BagIn(f, requests)
  /\ f.pc = "generation"
  /\ \E abandoned \in BOOLEAN :
       IF outcome.kind \in {"error", "timeout"}
         THEN /\ Reply(requests (-) SetToBag({f}), f.question, f.contextItems, f.log,
                       abandoned, ErrorResponse(500, ErrUnavailable))
              /\ UNCHANGED <<chatCache, cacheFile, writeFailures>>
         ELSE \E writeOk \in BOOLEAN :
                LET sources == buildSourceList(f.contextItems)
                    finalAnswer == generateChatAnswer(outcome) \o AnswerDisclaimer
                    written == setCachedAnswer(chatCache, cacheKeyOf[f.question],
                                 [answer |-> finalAnswer, sources |-> sources], now)
                IN  /\ chatCache' = written
                    /\ cacheFile' = saveChatCache(written, cacheFile, writeOk)
                    /\ writeFailures' = NextFailures(writeFailures, writeOk)
                    /\ Reply(requests (-) SetToBag({f}), f.question, f.contextItems,
                             f.log \o <<"cacheWrite">>, abandoned,
                             AnswerResponse(finalAnswer, sources, FALSE))
  /\ writeFailures' <= MaxWriteFailures
  /\ UNCHANGED <<config, now>>

\* the steps of the clock: an entry can be ttlMs - 1, ttlMs and ttlMs + 1 ms old
ClockSteps == {1, ttlMs - 1, ttlMs}

\* time passes
Tick(step) ==
  /\ completed = <<>>
  /\ (now + step) % ttlMs <= MaxShortTicks
  /\ (now + step) \div ttlMs <= MaxLongTicks
  /\ now' = now + step
  /\ completed' = <<>>
  /\ UNCHANGED <<config, chatCache, cacheFile, writeFailures, requests>>

\* the turn of the event loop that answered a request ends, the response sent;
\* the handlers and timers of the process run one turn at a time
EndOfTurn ==
  /\ completed # <<>>
  /\ completed' = <<>>
  /\ UNCHANGED <<config, chatCache, cacheFile, writeFailures, now, requests>>

Next ==
  \/ \E raw \in Questions : ChatStart(raw)
  \/ \E f \in BagToSet(requests), outcome \in EmbeddingOutcomes :
       EmbeddingReturn(f, outcome)
  \/ \E f \in BagToSet(requests), outcome \in GenerationOutcomes :
       GenerationReturn(f, outcome)
  \/ \E step \in ClockSteps : Tick(step)
  \/ EndOfTurn

Spec == Init /\ [][Next]_vars

SpecStartup == InitStartup /\ [][Next]_vars

\* the server starts without a provider credential, on no cache file or on
\* the cache file of an earlier run
InitKeyless ==
  /\ CHATBOT_ENABLED = TRUE
  /\ OPENAI_API_KEY = ""
  /\ \E index \in IndexStates :
       /\ ragDocuments = index.docs
       /\ ragEmbeddingsById = index.embeddings
  /\ ragFaqs \in FaqStates
  /\ cacheFileAtStartup \in {"missing", "entries"}
  /\ chatCache = loadJsonFile(cacheFileAtStartup, StoredCache, EmptyCache)
  /\ cacheFile = chatCache
  /\ writeFailures = 0
  /\ now = 0
  /\ requests = EmptyBag
  /\ completed = <<>>
  /\ IdleBuilds
  /\ IdleContact
  /\ hardSlice = NotSlicing

\* without a credential no request is suspended at a provider call
NextKeyless ==
  \/ \E raw \in Questions : ChatStart(raw)
  \/ \E step \in ClockSteps : Tick(step)
  \/ EndOfTurn

SpecKeyless == InitKeyless /\ [][NextKeyless]_vars

\* the server is asked for the names of properties of Object.prototype
NextPlainObject ==
  \/ \E raw \in PlainObjectQuestions : ChatStart(raw)
  \/ \E f \in BagToSet(requests), outcome \in EmbeddingOutcomes :
       EmbeddingReturn(f, outcome)
  \/ \E f \in BagToSet(requests), outcome \in GenerationOutcomes :
       GenerationReturn(f, outcome)
  \/ \E step \in ClockSteps : Tick(step)
  \/ EndOfTurn

SpecPlainObject == InitStartup /\ [][NextPlainObject]_vars

\* the server starts with an empty cache, a provider credential and an index
\* with embeddings for some of the documents
InitTwoKeys ==
  /\ CHATBOT_ENABLED = TRUE
  /\ OPENAI_API_KEY = "sk-key"
  /\ ragDocuments = Documents
  /\ ragEmbeddingsById = PartialEmbeddings
  /\ ragFaqs \in FaqStates
  /\ cacheFileAtStartup = "missing"
  /\ chatCache = loadJsonFile(cacheFileAtStartup, EmptyCache, EmptyCache)
  /\ cacheFile = EmptyCache
  /\ writeFailures = 0
  /\ now = 0
  /\ requests = EmptyBag
  /\ completed = <<>>
  /\ IdleBuilds
  /\ IdleContact
  /\ hardSlice = NotSlicing

NextTwoKeys ==
  \/ \E raw \in TwoKeyQuestions : ChatStart(raw)
  \/ \E f \in BagToSet(requests), outcome \in EmbeddingOutcomes :
       EmbeddingReturn(f, outcome)
  \/ \E f \in BagToSet(requests), outcome \in GenerationOutcomes :
       GenerationReturn(f, outcome)
  \/ Tick(1)
  \/ EndOfTurn

SpecTwoKeys == InitTwoKeys /\ [][NextTwoKeys]_vars

\* the same server and questions, with time enough for an entry to go stale
NextEviction ==
  \/ \E raw \in TwoKeyQuestions : ChatStart(raw)
  \/ \E f \in BagToSet(requests), outcome \in EmbeddingOutcomes :
       EmbeddingReturn(f, outcome)
  \/ \E f \in BagToSet(requests), outcome \in GenerationOutcomes :
       GenerationReturn(f, outcome)
  \/ \E step \in ClockSteps : Tick(step)
  \/ EndOfTurn

SpecEviction == InitTwoKeys /\ [][NextEviction]_vars

\* a server with a provider credential that starts on the cache file of an
\* earlier run and is asked the FAQ question and another one
StoredCacheQuestions == {QWhatIsPcos, QDoseUnderscoreDiet}

InitStoredCache ==
  /\ CHATBOT_ENABLED = TRUE
  /\ OPENAI_API_KEY = "sk-key"
  /\ ragDocuments = Documents
  /\ ragEmbeddingsById = PartialEmbeddings
  /\ ragFaqs \in FaqStates
  /\ cacheFileAtStartup = "entries"
  /\ chatCache = loadJsonFile(cacheFileAtStartup, StoredCache, EmptyCache)
  /\ cacheFile = StoredCache
  /\ writeFailures = 0
  /\ now = 0
  /\ requests = EmptyBag
  /\ completed = <<>>
  /\ IdleBuilds
  /\ IdleContact
  /\ hardSlice = NotSlicing

NextStoredCache ==
  \/ \E raw \in StoredCacheQuestions : ChatStart(raw)
  \/ \E f \in BagToSet(requests), outcome \in EmbeddingOutcomes :
       EmbeddingReturn(f, outcome)
  \/ \E f \in BagToSet(requests), outcome \in GenerationOutcomes :
       GenerationReturn(f, outcome)
  \/ \E step \in {1, ttlMs} : Tick(step)
  \/ EndOfTurn

SpecStoredCache == InitStoredCache /\ [][NextStoredCache]_vars

\* a server with a provider credential and no FAQ that loaded one of the
\* retrieval indexes; its generation provider is down, and it is asked one
\* question at a time
InitRetrieval ==
  /\ CHATBOT_ENABLED = TRUE
  /\ OPENAI_API_KEY = "sk-key"
  /\ \E index \in RetrievalIndexes :
       /\ ragDocuments = index.docs
       /\ ragEmbeddingsById = index.embeddings
  /\ ragFaqs = <<>>
  /\ cacheFileAtStartup = "missing"
  /\ chatCache = loadJsonFile(cacheFileAtStartup, EmptyCache, EmptyCache)
  /\ cacheFile = EmptyCache
  /\ writeFailures = 0
  /\ now = 0
  /\ requests = EmptyBag
  /\ completed = <<>>
  /\ IdleBuilds
  /\ IdleContact
  /\ hardSlice = NotSlicing

NextRetrieval ==
  \/ \E raw \in RetrievalQuestions : requests = EmptyBag /\ ChatStart(raw)
  \/ \E f \in BagToSet(requests), outcome \in RetrievalOutcomes :
       EmbeddingReturn(f, outcome)
  \/ \E f \in BagToSet(requests) :
       GenerationReturn(f, [kind |-> "error", content |-> <<>>])
  \/ EndOfTurn

SpecRetrieval == InitRetrieval /\ [][NextRetrieval]_vars

\* a server without a provider credential that loaded one of the FAQ lists
\* and is asked the questions near their prompts
InitFaq ==
  /\ CHATBOT_ENABLED = TRUE
  /\ OPENAI_API_KEY = ""
  /\ ragDocuments = Documents
  /\ ragEmbeddingsById = NoEmbeddings
  /\ ragFaqs \in FaqLists
  /\ cacheFileAtStartup = "missing"
  /\ chatCache = loadJsonFile(cacheFileAtStartup, EmptyCache, EmptyCache)
  /\ cacheFile = EmptyCache
  /\ writeFailures = 0
  /\ now = 0
  /\ requests = EmptyBag
  /\ completed = <<>>
  /\ IdleBuilds
  /\ IdleContact
  /\ hardSlice = NotSlicing

NextFaq ==
  \/ \E raw \in FaqQuestions : ChatStart(raw)
  \/ EndOfTurn

SpecFaq == InitFaq /\ [][NextFaq]_vars

(***************************************************************************)
(* The knowledge build script: main                                        *)
(***************************************************************************)
MaxBuildRuns == 2

\* the orders in which readdirSync can return the names of dir
Listings(dir) ==
  LET names == {f.name : f \in dir}
  IN  {l \in [1..Cardinality(names) -> names] :
         \A i, j \in 1..Cardinality(names) : l[i] = l[j] => i = j}

\* a run that writes the document index before it builds the FAQ list
KnowledgeMainWritesDocumentsFirst(listing) ==
  /\ embedPc # "awaiting"
  /\ knowledgeExit.run < MaxBuildRuns
  /\ documentsJson' = <<buildDocuments(knowledgeFiles, listing, MAX_CHARS, OVERLAP_CHARS)>>
  /\ IF buildFaqs(faqJson).error # <<>>
       THEN /\ knowledgeExit' = [code |-> 1, error |-> buildFaqs(faqJson).error,
                                  run |-> knowledgeExit.run + 1]
            /\ UNCHANGED <<faqsJson, guardrailsTxt>>
       ELSE /\ faqsJson' = <<buildFaqs(faqJson).faqs>>
            /\ guardrailsTxt' = <<buildGuardrails(guardrailsMd)>>
            /\ knowledgeExit' = [code |-> 0, error |-> <<>>,
                                  run |-> knowledgeExit.run + 1]
  /\ UNCHANGED <<serverVars, OPENAI_API_KEY, hardSlice, embedVars>>
  /\ UNCHANGED <<knowledgeFiles, faqJson, guardrailsMd, MAX_CHARS, OVERLAP_CHARS>>

\* one run of the script: the three builds, then the three writes; an
\* exception of a build ends the process before any write
KnowledgeMain(listing) ==
  /\ embedPc # "awaiting"
  /\ knowledgeExit.run < MaxBuildRuns
  /\ LET documents == buildDocuments(knowledgeFiles, listing, MAX_CHARS, OVERLAP_CHARS)
         faqs == buildFaqs(faqJson)
         guardrails == buildGuardrails(guardrailsMd)
     IN  IF faqs.error # <<>>
           THEN /\ knowledgeExit' = [code |-> 1, error |-> faqs.error,
                                      run |-> knowledgeExit.run + 1]
                /\ UNCHANGED <<documentsJson, faqsJson, guardrailsTxt>>
           ELSE /\ documentsJson' = <<documents>>
                /\ faqsJson' = <<faqs.faqs>>
                /\ guardrailsTxt' = <<guardrails>>
                /\ knowledgeExit' = [code |-> 0, error |-> <<>>,
                                      run |-> knowledgeExit.run + 1]
  /\ UNCHANGED <<serverVars, OPENAI_API_KEY, hardSlice, embedVars>>
  /\ UNCHANGED <<knowledgeFiles, faqJson, guardrailsMd, MAX_CHARS, OVERLAP_CHARS>>

(***************************************************************************)
(* The chunker on every short text                                         *)
(***************************************************************************)
MaxTextLength == 7

MaxChunkChars == 4

ChunkAlphabet == {"a", " ", "\n"}

ShortTexts == UNION {[1..n -> ChunkAlphabet] : n \in 0..MaxTextLength}

NoMeta == [title |-> <<>>, source_url |-> <<>>, tags |-> <<>>]

\* one source file with any short body; any chunk size, any smaller overlap
InitChunker ==
  /\ IdleServer
  /\ IdleContact
  /\ hardSlice = NotSlicing
  /\ OPENAI_API_KEY = ""
  /\ \E body \in ShortTexts :
       knowledgeFiles = {[name |-> <<"a", ".", "m", "d">>, meta |-> NoMeta, body |-> body]}
  /\ faqJson = AbsentFile
  /\ guardrailsMd = <<>>
  /\ MAX_CHARS \in 1..MaxChunkChars
  /\ OVERLAP_CHARS \in 0..(MAX_CHARS - 1)
  /\ documentsJson = <<>>
  /\ faqsJson = <<>>
  /\ guardrailsTxt = <<>>
  /\ knowledgeExit = NotRun
  /\ BATCH_SIZE = 20
  /\ embeddingsJson = <<>>
  /\ embedPc = "idle"
  /\ embedExit = NotRun
  /\ embedDocs = <<>>
  /\ embedItems = <<>>
  /\ pendingDocs = <<>>
  /\ batchStart = 0
  /\ embedInFlight = {}
  /\ embedSent = <<>>

NextChunker == \E listing \in Listings(knowledgeFiles) : KnowledgeMain(listing)

SpecChunker == InitChunker /\ [][NextChunker]_vars

(***************************************************************************)
(* The knowledge build on directories of several files                     *)
(***************************************************************************)
FileDiet ==
  [name |-> <<"d", "i", "e", "t", ".", "m", "d">>,
   meta |-> [title |-> <<"D", "i", "e", "t">>, source_url |-> <<"u">>, tags |-> <<<<"t">>>>],
   body |-> <<"a", "a", " ", "b", "b", "\n", "\n", "c", "c", " ", "d", "d">>]

\* no title in the front matter, a body longer than every MAX_CHARS tried
FileB ==
  [name |-> <<"b", "_", "B", ".", "m", "d">>, meta |-> NoMeta, body |-> <<"a", "a", "a", "a", "a", "a", "a", "a", "a", "a", "a", "a", "a">>]

\* an upper-case name, which sorts before the lower-case ones
FileUpper ==
  [name |-> <<"Z", ".", "m", "d">>, meta |-> NoMeta, body |-> <<"*", "a", "*">>]

\* a body of which stripMarkdown leaves nothing
FileEmpty ==
  [name |-> <<"e", ".", "m", "d">>, meta |-> NoMeta, body |-> <<"*", " ", "*", "\n">>]

FileGuardrails ==
  [name |-> <<"g", "u", "a", "r", "d", "r", "a", "i", "l", "s", ".", "m", "d">>, meta |-> NoMeta, body |-> <<"b", "e", " ", "_", "k", "i", "n", "d", "_">>]

\* not a source: the name does not end in .md
FileText ==
  [name |-> <<"n", ".", "t", "x", "t">>, meta |-> NoMeta, body |-> <<"a", "a">>]

MaxFiles == 3

KnowledgeDirs ==
  {dir \in SUBSET {FileDiet, FileB, FileUpper, FileEmpty, FileGuardrails, FileText} :
     Cardinality(dir) <= MaxFiles}

FaqItem(id, prompts, answer, sources) ==
  [type |-> "object", id |-> id, prompts |-> prompts, answer |-> answer,
   sources |-> sources]

\* an item that is null
NullItem ==
  [type |-> "null", id |-> <<>>, prompts |-> NoValue, answer |-> NoText,
   sources |-> NoValue]

GoodItem ==
  FaqItem(<<"f", "1">>, ArrayOf(<<<<"h", "i">>>>), TextOf(<<"y", "o">>), ArrayOf(<<<<"s">>>>))

\* a valid item without sources
BareItem == FaqItem(<<>>, ArrayOf(<<<<"h", "e", "y">>>>), TextOf(<<"o", "k">>), NoValue)

FaqValue(value) == [kind |-> "value", value |-> value]

\* faq.json contents that pass validateFaqs
ValidFaqFiles ==
  { AbsentFile,
    FaqValue(ArrayOf(<<>>)),
    FaqValue(ArrayOf(<<GoodItem, BareItem>>)) }

\* faq.json contents that validateFaqs rejects: no list; an item that is no
\* object; prompts missing; prompts empty; answer missing; answer blank
InvalidFaqFiles ==
  { FaqValue([type |-> "object", items |-> <<>>]),
    FaqValue(ArrayOf(<<GoodItem, NullItem>>)),
    FaqValue(ArrayOf(<<FaqItem(<<"f", "2">>, NoValue, TextOf(<<"o", "k">>), NoValue)>>)),
    FaqValue(ArrayOf(<<GoodItem, FaqItem(<<>>, ArrayOf(<<>>), TextOf(<<"o", "k">>), NoValue)>>)),
    FaqValue(ArrayOf(<<FaqItem(<<"f", "3">>, ArrayOf(<<<<"h", "i">>>>), NoText, NoValue)>>)),
    FaqValue(ArrayOf(<<FaqItem(<<"f", "4">>, ArrayOf(<<<<"h", "i">>>>), TextOf(<<" ", "\n">>), NoValue), GoodItem>>)) }

\* a text JSON.parse rejects
UnparsableFile == [kind |-> "unparsable", value |-> NoValue]

FaqFiles == ValidFaqFiles \cup InvalidFaqFiles \cup {UnparsableFile}

\* the outputs an earlier run left, from other sources
EarlierDocuments ==
  buildDocuments({FileUpper, FileDiet}, <<FileUpper.name, FileDiet.name>>,
                 MaxChunkChars + MaxTextLength, 0)

InitKnowledge ==
  /\ IdleServer
  /\ IdleContact
  /\ hardSlice = NotSlicing
  /\ OPENAI_API_KEY = ""
  /\ knowledgeFiles \in KnowledgeDirs
  /\ faqJson \in FaqFiles
  /\ guardrailsMd = IF FileGuardrails \in knowledgeFiles
                      THEN <<FileGuardrails.body>> ELSE <<>>
  /\ MAX_CHARS \in {MaxChunkChars, MaxChunkChars + MaxTextLength}
  /\ OVERLAP_CHARS \in {0, 1}
  /\ \/ /\ documentsJson = <<>>
        /\ faqsJson = <<>>
        /\ guardrailsTxt = <<>>
     \/ /\ documentsJson = <<EarlierDocuments>>
        /\ faqsJson = <<ArrayOf(<<GoodItem>>)>>
        /\ guardrailsTxt = <<<<"o", "l", "d">>>>
  /\ knowledgeExit = NotRun
  /\ BATCH_SIZE = 20
  /\ embeddingsJson = <<>>
  /\ embedPc = "idle"
  /\ embedExit = NotRun
  /\ embedDocs = <<>>
  /\ embedItems = <<>>
  /\ pendingDocs = <<>>
  /\ batchStart = 0
  /\ embedInFlight = {}
  /\ embedSent = <<>>

NextKnowledge == \E listing \in Listings(knowledgeFiles) : KnowledgeMain(listing)

SpecKnowledge == InitKnowledge /\ [][NextKnowledge]_vars

\* a file whose name differs from that of FileB in case and punctuation alone
FileBHyphen ==
  [name |-> <<"b", "-", "b", ".", "m", "d">>, meta |-> NoMeta, body |-> <<"c", "c">>]

\* directories that may hold both
SlugDirs ==
  {dir \in SUBSET {FileDiet, FileB, FileBHyphen, FileUpper, FileEmpty} :
     Cardinality(dir) <= MaxFiles}

InitSlugs ==
  /\ IdleServer
  /\ IdleContact
  /\ hardSlice = NotSlicing
  /\ OPENAI_API_KEY = ""
  /\ knowledgeFiles \in SlugDirs
  /\ faqJson \in FaqFiles
  /\ guardrailsMd = <<>>
  /\ MAX_CHARS \in {MaxChunkChars, MaxChunkChars + MaxTextLength}
  /\ OVERLAP_CHARS \in {0, 1}
  /\ \/ /\ documentsJson = <<>>
        /\ faqsJson = <<>>
        /\ guardrailsTxt = <<>>
     \/ /\ documentsJson = <<EarlierDocuments>>
        /\ faqsJson = <<ArrayOf(<<GoodItem>>)>>
        /\ guardrailsTxt = <<<<"o", "l", "d">>>>
  /\ knowledgeExit = NotRun
  /\ BATCH_SIZE = 20
  /\ embeddingsJson = <<>>
  /\ embedPc = "idle"
  /\ embedExit = NotRun
  /\ embedDocs = <<>>
  /\ embedItems = <<>>
  /\ pendingDocs = <<>>
  /\ batchStart = 0
  /\ embedInFlight = {}
  /\ embedSent = <<>>

SpecSlugs == InitSlugs /\ [][NextKnowledge]_vars

(***************************************************************************)
(* The embedding build script: main                                        *)
(***************************************************************************)
MaxEmbedRuns == 2

MaxBatchSize == 2

Running(exit) == [code |-> -1, error |-> <<>>, run |-> exit.run]

\* main rejects and the records collected so far are written
EmbedFailsWritingPartial(error) ==
  /\ embedPc' = "failed"
  /\ embedExit' = [code |-> 1, error |-> error, run |-> embedExit.run + 1]
  /\ embeddingsJson' = <<[model |-> MODEL, items |-> embedItems]>>

\* main rejects: main().catch prints the message and exits with code 1; the
\* embedding index file is not touched
EmbedFails(error) ==
  /\ embedPc' = "failed"
  /\ embedExit' = [code |-> 1, error |-> error, run |-> embedExit.run + 1]
  /\ UNCHANGED embeddingsJson

\* lines 89-93: the index is written in the order of docs
EmbedWrites(docs, items) ==
  /\ embeddingsJson' = <<[model |-> MODEL, items |-> OrderedItems(docs, items)]>>
  /\ embedPc' = "done"
  /\ embedExit' = [code |-> 0, error |-> <<>>, run |-> embedExit.run + 1]

\* the request for the batch at i goes out and main awaits its response
EmbedSends(pending, i, sent) ==
  /\ embedSent' = Append(sent, InputsOf(BatchAt(pending, i, BATCH_SIZE)))
  /\ embedPc' = "awaiting"
  /\ embedExit' = Running(embedExit)
  /\ UNCHANGED embeddingsJson

\* a run that sends the requests of all its batches before it awaits one
EmbedAfterPartitionSendsAll(docs, pending, items) ==
  /\ embedDocs' = docs
  /\ pendingDocs' = pending
  /\ embedItems' = items
  /\ batchStart' = 0
  /\ IF Len(pending) = 0
       THEN /\ EmbedWrites(docs, items)
            /\ embedInFlight' = {}
            /\ embedSent' = <<>>
       ELSE /\ EmbedSends(pending, 0, <<>>)
            /\ embedInFlight' = {i \in 0..(Len(pending) - 1) : i % BATCH_SIZE = 0}

\* main after the loop over docs, with pendingDocs and items as it left them
EmbedAfterPartition(docs, pending, items) ==
  /\ embedDocs' = docs
  /\ pendingDocs' = pending
  /\ embedItems' = items
  /\ batchStart' = 0
  /\ IF Len(pending) = 0
       THEN /\ EmbedWrites(docs, items)
            /\ embedInFlight' = {}
            /\ embedSent' = <<>>
       ELSE /\ EmbedSends(pending, 0, <<>>)
            /\ embedInFlight' = {0}

\* the script starts: main runs to its first await, or to its end
EmbedStart ==
  /\ embedPc # "awaiting"
  /\ embedExit.run < MaxEmbedRuns
  /\ IF OPENAI_API_KEY = "" \/ documentsJson = <<>> \/ documentsJson = << <<>> >>
       THEN /\ EmbedFails(IF OPENAI_API_KEY = "" THEN <<"OPENAI_API_KEY is required.">>
                          ELSE IF documentsJson = <<>> THEN <<"Missing file: rag/documents.json">>
                          ELSE <<"rag/documents.json must contain at least one document.">>)
            /\ embedDocs' = <<>>
            /\ pendingDocs' = <<>>
            /\ embedItems' = <<>>
            /\ batchStart' = 0
            /\ embedInFlight' = {}
            /\ embedSent' = <<>>
       ELSE EmbedAfterPartition(documentsJson[1],
                                PendingDocs(documentsJson[1], ExistingItems(embeddingsJson)),
                                ReusedItems(documentsJson[1], ExistingItems(embeddingsJson)))
  /\ UNCHANGED <<serverVars, OPENAI_API_KEY, hardSlice, knowledgeVars, documentsJson, BATCH_SIZE>>

\* main resumes with the response to the batch at batchStart
EmbedResumes(batch, response) ==
  /\ embedItems' = embedItems \o BatchItems(batch, response)
  /\ IF BatchError(batch, response) # <<>>
       THEN /\ EmbedFails(BatchError(batch, response))
            /\ embedInFlight' = embedInFlight \ {batchStart}
            /\ UNCHANGED <<batchStart, embedSent>>
       ELSE IF batchStart + BATCH_SIZE < Len(pendingDocs)
         THEN /\ EmbedSends(pendingDocs, batchStart + BATCH_SIZE, embedSent)
              /\ batchStart' = batchStart + BATCH_SIZE
              /\ embedInFlight' = (embedInFlight \ {batchStart}) \cup {batchStart + BATCH_SIZE}
         ELSE /\ EmbedWrites(embedDocs, embedItems \o BatchItems(batch, response))
              /\ embedInFlight' = embedInFlight \ {batchStart}
              /\ UNCHANGED <<batchStart, embedSent>>
  /\ UNCHANGED <<embedDocs, pendingDocs>>

\* the provider answers the request in flight, or the request fails
EmbedBatchReturn ==
  /\ embedPc = "awaiting"
  /\ batchStart \in embedInFlight
  /\ \E response \in ProviderResponses(InputsOf(BatchAt(pendingDocs, batchStart, BATCH_SIZE)),
                                       embedExit.run + 1) :
       EmbedResumes(BatchAt(pendingDocs, batchStart, BATCH_SIZE), response)
  /\ UNCHANGED <<serverVars, OPENAI_API_KEY, hardSlice, knowledgeVars, documentsJson, BATCH_SIZE>>

\* between two runs rag/documents.json is replaced, as a knowledge build does
DocumentsReplaced(file) ==
  /\ embedPc # "awaiting"
  /\ file # documentsJson
  /\ documentsJson' = file
  /\ UNCHANGED <<serverVars, OPENAI_API_KEY, hardSlice, knowledgeVars, embedVars>>

EmbedA == [id |-> <<"a", "-", "1">>, title |-> <<"A">>, content |-> <<"x">>]

EmbedB == [id |-> <<"a", "-", "2">>, title |-> <<"A">>, content |-> <<"y", " ", "y">>]

EmbedC == [id |-> <<"b", "-", "1">>, title |-> <<"B">>, content |-> <<"z", "z", "z">>]

EmbedD == [id |-> <<"c", "-", "1">>, title |-> <<"C">>, content |-> <<"c", " ", "c", " ", "c">>]

EmbedE == [id |-> <<"c", "-", "2">>, title |-> <<"C">>, content |-> <<"c", "c", "c", "c", "c">>]

\* the document of EmbedA with another content
EmbedAEdited == [id |-> <<"a", "-", "1">>, title |-> <<"A">>, content |-> <<"x", "!">>]

\* a document with the id of EmbedA: the slugs of two file names can coincide
EmbedASameId == [id |-> <<"a", "-", "1">>, title |-> <<"a">>, content |-> <<"w">>]

\* document lists: three documents; the same reordered with one edited;
\* five documents; two documents of one id
EmbedDocumentLists ==
  { <<EmbedA, EmbedB, EmbedC>>,
    <<EmbedC, EmbedAEdited, EmbedB>>,
    <<EmbedA, EmbedB, EmbedC, EmbedD, EmbedE>>,
    <<EmbedA, EmbedASameId>> }

\* rag/documents.json: absent, an empty list, a list
EmbedDocumentFiles == {<<>>, << <<>> >>} \cup {<<docs>> : docs \in EmbedDocumentLists}

InitEmbed ==
  /\ IdleServer
  /\ IdleContact
  /\ hardSlice = NotSlicing
  /\ OPENAI_API_KEY \in {"", "sk-key"}
  /\ knowledgeFiles = {}
  /\ faqJson = AbsentFile
  /\ guardrailsMd = <<>>
  /\ MAX_CHARS = 1800
  /\ OVERLAP_CHARS = 260
  /\ documentsJson \in EmbedDocumentFiles
  /\ faqsJson = <<>>
  /\ guardrailsTxt = <<>>
  /\ knowledgeExit = NotRun
  /\ BATCH_SIZE \in 1..MaxBatchSize
  /\ embeddingsJson = <<>>
  /\ embedPc = "idle"
  /\ embedExit = NotRun
  /\ embedDocs = <<>>
  /\ embedItems = <<>>
  /\ pendingDocs = <<>>
  /\ batchStart = 0
  /\ embedInFlight = {}
  /\ embedSent = <<>>

NextEmbed ==
  \/ EmbedStart
  \/ EmbedBatchReturn
  \/ \E file \in EmbedDocumentFiles : DocumentsReplaced(file)

SpecEmbed == InitEmbed /\ [][NextEmbed]_vars

(***************************************************************************)
(* The contact form handler                                                *)
(***************************************************************************)
RECAPTCHA_EXPECTED_ACTION == "CONTACT_FORM_SUBMIT"

\* RECAPTCHA_MIN_SCORE = 0.5, scores being fractions num / den
RECAPTCHA_MIN_SCORE == [num |-> 1, den |-> 2]

MinMessageLength == 10

MaxMessageLength == 5000

\* process.env.MAIL_TO || 'projectcystem@gmail.com'
MailTo == "projectcystem@gmail.com"

\* the values of a field of req.body: a field that is not there, a string, a
\* JSON number other than 0.  The text of name, email, token and honeypot is
\* a sequence of characters; the text of message is a sequence of runs
\* [char, count], count >= 1, so that a text of 5000 characters is short
Undefined == [type |-> "undefined", text |-> <<>>]

Str(text) == [type |-> "string", text |-> text]

NonZeroNumber == [type |-> "number", text |-> <<>>]

\* ToBoolean of a field value
Truthy(v) == v.type = "number" \/ (v.type = "string" /\ v.text # <<>>)

\* String.prototype.trim on a text of runs
RunsTrim(runs) ==
  LET keep == {i \in 1..Len(runs) : ~IsWhitespace(runs[i].char)}
  IN  IF keep = {} THEN <<>>
      ELSE LET first == CHOOSE i \in keep : \A j \in keep : i <= j
               last  == CHOOSE i \in keep : \A j \in keep : j <= i
           IN  SubSeq(runs, first, last)

\* String.prototype.length on a text of runs
RunsLength(runs) ==
  LET F[i \in 0..Len(runs)] == IF i = 0 THEN 0 ELSE F[i - 1] + runs[i].count
  IN  F[Len(runs)]

\* [^\s@]+ matches the whole of s[from..to]
PlainPart(s, from, to) ==
  /\ from <= to
  /\ \A k \in from..to : ~IsWhitespace(s[k]) /\ s[k] # "@"

\* emailRegex.test(s), emailRegex = /^[^\s@]+@[^\s@]+\.[^\s@]+$/
emailRegexTest(s) ==
  \E i \in 1..Len(s) : \E j \in (i + 1)..Len(s) :
    /\ s[i] = "@"
    /\ s[j] = "."
    /\ PlainPart(s, 1, i - 1)
    /\ PlainPart(s, i + 1, j - 1)
    /\ PlainPart(s, j + 1, Len(s))

\* rawMailFrom.trim().replace(/^<(.+)>$/, '$1')
NormalizeMailFrom(raw) ==
  LET trimmed == Trim(raw)
  IN  IF /\ Len(trimmed) >= 3
         /\ trimmed[1] = "<"
         /\ trimmed[Len(trimmed)] = ">"
         /\ \A k \in 2..(Len(trimmed) - 1) : ~IsLineTerminator(trimmed[k])
        THEN SubSeq(trimmed, 2, Len(trimmed) - 1)
        ELSE trimmed

\* process.env.MAIL_FROM || process.env.SMTP_USER || '', normalized
mailFrom == NormalizeMailFrom(IF MAIL_FROM # <<>> THEN MAIL_FROM ELSE SMTP_USER)

ContactError(status, message) == [status |-> status, error |-> message, success |-> FALSE]

ContactSuccess == [status |-> 200, error |-> "", success |-> TRUE]

ErrHoneypot == ContactError(400, "Submission failed. Please try again.")

ErrFields == ContactError(400, "Please fill in all fields.")

ErrEmail == ContactError(400, "Please enter a valid email address.")

ErrMessageLength == ContactError(400, "Message must be between 10 and 5000 characters.")

ErrCaptcha == ContactError(400, "reCAPTCHA verification failed. Please try again.")

ErrConfiguration == ContactError(500, "Server configuration error. Please try again later.")

\* the response of the catch block
ErrCaught == ContactError(500, "An error occurred. Please try again later.")

NoResponse == [status |-> 0, error |-> "", success |-> FALSE]

\* the handler up to its first await: the response of the first return it
\* takes, NoResponse when it goes on to the captcha assessment.  message.trim
\* of a message that is no string throws, which the catch block answers
ContactChecks(body) ==
  IF Truthy(body.hp_contact) THEN ErrHoneypot
  ELSE IF ~Truthy(body.name) \/ ~Truthy(body.email) \/ ~Truthy(body.message)
    THEN ErrFields
  ELSE IF ~emailRegexTest(body.email.text) THEN ErrEmail
  ELSE IF body.message.type # "string" THEN ErrCaught
  ELSE IF \/ RunsLength(RunsTrim(body.message.text)) < MinMessageLength
          \/ RunsLength(RunsTrim(body.message.text)) > MaxMessageLength
    THEN ErrMessageLength
  ELSE IF ~Truthy(body.captchaToken) THEN ErrCaptcha
  ELSE IF RECAPTCHA_PROJECT_ID = "" \/ RECAPTCHA_API_KEY = "" \/ RECAPTCHA_SITE_KEY = ""
    THEN ErrConfiguration
  ELSE NoResponse

\* score < RECAPTCHA_MIN_SCORE
ScoreBelow(score, min) == score.num * min.den < min.num * score.den

\* an assessment check that does not look at the score
AssessmentFailsWhateverScore(data) ==
  \/ data.valid # "true"
  \/ data.action # <<>> /\ data.action[1] # RECAPTCHA_EXPECTED_ACTION

\* !captchaValid || hasActionMismatch || hasLowScore.  action and score are
\* <<>> when the assessment reports none
AssessmentFails(data) ==
  \/ data.valid # "true"
  \/ data.action # <<>> /\ data.action[1] # RECAPTCHA_EXPECTED_ACTION
  \/ data.score # <<>> /\ ScoreBelow(data.score[1], RECAPTCHA_MIN_SCORE)

\* mailOptions and confirmationMailOptions, as far as they address the mail
AdminMail(id, body) ==
  [id |-> id, kind |-> "admin", from |-> mailFrom, to |-> MailTo,
   replyTo |-> body.email.text]

ConfirmationMail(id, body) ==
  [id |-> id, kind |-> "confirmation", from |-> mailFrom, to |-> body.email.text,
   replyTo |-> <<>>]

NoAssessment == [kind |-> "none", valid |-> "absent", action |-> <<>>, score |-> <<>>]

ContactFrame(id, pc, body, assessment) ==
  [id |-> id, pc |-> pc, body |-> body, assessment |-> assessment]

\* return res.status(...).json(...)
ContactReply(inFlight, frame, response) ==
  /\ contactRequests' = inFlight
  /\ contactReplies' = <<[id |-> frame.id, body |-> frame.body,
                          assessment |-> frame.assessment, response |-> response]>>

\* the handler stops at an await
ContactSuspend(inFlight, frame) ==
  /\ contactRequests' = inFlight \cup {frame}
  /\ contactReplies' = <<>>

\* the requests the handler is started for in a behaviour
MaxContactRequests == 2

\* app.post('/contact') from its start to its first await or return
ContactStart(body) ==
  /\ contactStarted < MaxContactRequests
  /\ contactStarted' = contactStarted + 1
  /\ LET frame == ContactFrame(contactStarted + 1, "assessment", body, NoAssessment)
     IN  IF ContactChecks(body) # NoResponse
           THEN ContactReply(contactRequests, frame, ContactChecks(body))
           ELSE ContactSuspend(contactRequests, frame)
  /\ UNCHANGED <<outbox, contactConfig>>
  /\ UNCHANGED <<chatVars, OPENAI_API_KEY, hardSlice, knowledgeVars, documentsJson, embedVars>>

\* the assessment call ends: from await axios.post(...) to the await of
\* transporter.sendMail(mailOptions), or to a return
AssessmentReturn(f, outcome) ==
  /\ f \in contactRequests
  /\ f.pc = "assessment"
  /\ LET rest == contactRequests \ {f}
         seen == [f EXCEPT !.assessment = outcome]
     IN  IF outcome.kind = "error"
           THEN ContactReply(rest, seen, ErrCaught) /\ UNCHANGED outbox
         ELSE IF AssessmentFails(outcome)
           THEN ContactReply(rest, seen, ErrCaptcha) /\ UNCHANGED outbox
         ELSE IF mailFrom = <<>> \/ ~emailRegexTest(mailFrom)
           THEN ContactReply(rest, seen, ErrConfiguration) /\ UNCHANGED outbox
         ELSE /\ outbox' = Append(outbox, AdminMail(f.id, f.body))
              /\ ContactSuspend(rest, [seen EXCEPT !.pc = "adminMail"])
  /\ UNCHANGED <<contactStarted, contactConfig>>
  /\ UNCHANGED <<chatVars, OPENAI_API_KEY, hardSlice, knowledgeVars, documentsJson, embedVars>>

\* sendMail(mailOptions) ends: to the await of the confirmation mail, or to
\* a return
AdminMailReturn(f, sent) ==
  /\ f \in contactRequests
  /\ f.pc = "adminMail"
  /\ LET rest == contactRequests \ {f}
     IN  IF ~sent
           THEN ContactReply(rest, f, ErrCaught) /\ UNCHANGED outbox
         ELSE IF SEND_CONFIRMATION_EMAIL
           THEN /\ outbox' = Append(outbox, ConfirmationMail(f.id, f.body))
                /\ ContactSuspend(rest, [f EXCEPT !.pc = "confirmationMail"])
         ELSE ContactReply(rest, f, ContactSuccess) /\ UNCHANGED outbox
  /\ UNCHANGED <<contactStarted, contactConfig>>
  /\ UNCHANGED <<chatVars, OPENAI_API_KEY, hardSlice, knowledgeVars, documentsJson, embedVars>>

\* sendMail(confirmationMailOptions) ends, sent or not
ConfirmationMailReturn(f, sent) ==
  /\ f \in contactRequests
  /\ f.pc = "confirmationMail"
  /\ ContactReply(contactRequests \ {f}, f, ContactSuccess)
  /\ UNCHANGED <<outbox, contactStarted, contactConfig>>
  /\ UNCHANGED <<chatVars, OPENAI_API_KEY, hardSlice, knowledgeVars, documentsJson, embedVars>>

\* the texts of the fields of the form
TextAl == <<"A", "l">>

EmailGood == <<"a", "@", "b", ".", "c">>

EmailNoDot == <<"a", "@", "b">>

EmailSpace == <<"a", " ", "@", "b", ".", "c">>

EmailTwoAt == <<"a", "@", "b", "@", "c", ".", "d">>

Run(char, count) == [char |-> char, count |-> count]

\* messages of 9, 10, 5000 and 5001 characters once trimmed, a blank one of
\* 12, and one of 14 that is 9 long once trimmed
ContactMessages ==
  { Undefined,
    NonZeroNumber,
    Str(<<Run("a", MinMessageLength - 1)>>),
    Str(<<Run("a", MinMessageLength)>>),
    Str(<<Run(" ", 3), Run("a", MinMessageLength - 1), Run("\n", 2)>>),
    Str(<<Run(" ", 1), Run("a", MaxMessageLength)>>),
    Str(<<Run("a", MaxMessageLength + 1)>>),
    Str(<<Run(" ", 12)>>) }

\* a form filled in as the page asks
ValidBody ==
  [hp_contact |-> Undefined, name |-> Str(TextAl), email |-> Str(EmailGood),
   message |-> Str(<<Run("a", MinMessageLength)>>), captchaToken |-> Str(<<"t">>)]

\* the bodies of the requests: the valid form with up to two fields changed
ContactBodies ==
  { body \in [hp_contact : {Undefined, Str(<<"x">>)},
              name : {Undefined, Str(TextAl)},
              email : {Undefined, Str(EmailGood), Str(EmailNoDot), Str(EmailSpace),
                       Str(EmailTwoAt)},
              message : ContactMessages,
              captchaToken : {Undefined, Str(<<"t">>)}] :
      Cardinality({field \in DOMAIN ValidBody : body[field] # ValidBody[field]}) <= 2 }

Fraction(num, den) == [num |-> num, den |-> den]

\* what the assessment call ends with: an error of the call, or the data of
\* the response, tokenProperties and riskAnalysis there or not
AssessmentOutcomes ==
  {[kind |-> "error", valid |-> "absent", action |-> <<>>, score |-> <<>>]}
    \cup [kind : {"data"},
          valid : {"true", "false", "absent"},
          action : {<<>>, <<RECAPTCHA_EXPECTED_ACTION>>, <<"LOGIN">>},
          score : {<<>>, <<Fraction(2, 5)>>, <<Fraction(1, 2)>>, <<Fraction(9, 10)>>}]

\* the captcha settings: all set, or one of them missing
CaptchaSettings ==
  { <<"project", "key", "site">>, <<"", "key", "site">>, <<"project", "", "site">>,
    <<"project", "key", "">> }

\* a server that is sent contact forms, with the settings of the captcha and
\* of the sender address in all their states
InitContact ==
  /\ IdleServer
  /\ IdleBuilds
  /\ OPENAI_API_KEY = ""
  /\ \E settings \in CaptchaSettings :
       /\ RECAPTCHA_PROJECT_ID = settings[1]
       /\ RECAPTCHA_API_KEY = settings[2]
       /\ RECAPTCHA_SITE_KEY = settings[3]
  /\ MAIL_FROM \in {<<>>, <<" ", "<", "m", "@", "x", ".", "y", ">">>, <<"<", ">">>}
  /\ SMTP_USER \in {<<>>, <<"u", "@", "x", ".", "y">>}
  /\ SEND_CONFIRMATION_EMAIL \in BOOLEAN
  /\ contactStarted = 0
  /\ contactRequests = {}
  /\ contactReplies = <<>>
  /\ outbox = <<>>
  /\ hardSlice = NotSlicing

NextContact ==
  \/ \E body \in ContactBodies : ContactStart(body)
  \/ \E f \in contactRequests, outcome \in AssessmentOutcomes : AssessmentReturn(f, outcome)
  \/ \E f \in contactRequests, sent \in BOOLEAN : AdminMailReturn(f, sent)
  \/ \E f \in contactRequests, sent \in BOOLEAN : ConfirmationMailReturn(f, sent)

SpecContact == InitContact /\ [][NextContact]_vars

(***************************************************************************)
(* chunkText: the hard slice of an oversized paragraph, turn by turn       *)
(***************************************************************************)
MaxParagraphLength == 6

\* a loop whose windows advance pushes at most one segment per character of
\* the paragraph; a loop is followed no further than that
MaxWindows == MaxParagraphLength

\* the paragraphs chunkText gets from normalizeWhitespace and filter(Boolean)
SliceParagraphs ==
  { p \in UNION {[1..n -> {"a", " "}] : n \in 1..MaxParagraphLength} :
      normalizeWhitespace(p) = p }

\* one turn of while (start < paragraph.length), up to the end of the loop
HardSliceTurn ==
  /\ hardSlice.pc = "slicing"
  /\ Len(hardSlice.chunks) < MaxWindows
  /\ LET paragraph == hardSlice.paragraph
         start == hardSlice.start
         end == Min(start + MAX_CHARS, Len(paragraph))
         segment == Trim(SubSeq(paragraph, start + 1, end))
         pushed == IF segment # <<>> THEN <<segment>> ELSE <<>>
     IN  hardSlice' =
           IF ~(start < Len(paragraph))
             THEN [hardSlice EXCEPT !.pc = "done"]
           ELSE IF end >= Len(paragraph)
             THEN [hardSlice EXCEPT !.pc = "done", !.chunks = @ \o pushed]
           ELSE [hardSlice EXCEPT !.start = Max(0, end - OVERLAP_CHARS),
                                  !.chunks = @ \o pushed]
  /\ UNCHANGED <<serverVars, OPENAI_API_KEY, knowledgeVars, documentsJson, embedVars>>

\* chunkText has come to a paragraph longer than maxChars, the chunk size and
\* the overlap being any two numbers KB_CHUNK_MAX_CHARS and
\* KB_CHUNK_OVERLAP_CHARS can give
InitHardSlice ==
  /\ IdleServer
  /\ IdleContact
  /\ OPENAI_API_KEY = ""
  /\ knowledgeFiles = {}
  /\ faqJson = AbsentFile
  /\ guardrailsMd = <<>>
  /\ MAX_CHARS \in 1..MaxChunkChars
  /\ OVERLAP_CHARS \in 0..MaxChunkChars
  /\ documentsJson = <<>>
  /\ faqsJson = <<>>
  /\ guardrailsTxt = <<>>
  /\ knowledgeExit = NotRun
  /\ BATCH_SIZE = 20
  /\ embeddingsJson = <<>>
  /\ embedPc = "idle"
  /\ embedExit = NotRun
  /\ embedDocs = <<>>
  /\ embedItems = <<>>
  /\ pendingDocs = <<>>
  /\ batchStart = 0
  /\ embedInFlight = {}
  /\ embedSent = <<>>
  /\ \E paragraph \in SliceParagraphs :
       /\ Len(paragraph) > MAX_CHARS
       /\ hardSlice = [pc |-> "slicing", paragraph |-> paragraph, start |-> 0,
                       chunks |-> <<>>]

NextHardSlice == HardSliceTurn

\* the loop is one synchronous run of the script: a turn that can be taken is taken
SpecHardSlice == InitHardSlice /\ [][NextHardSlice]_vars /\ WF_vars(HardSliceTurn)

(***************************************************************************)
(* Properties of the request pipeline                                      *)
(***************************************************************************)
\* the request this step answered, where there is one
Answered == completed # <<>>

Done == completed[1]

\* the stages a request went through, the embedding call being part of retrieval
Stages(log) == SelectSeq(log, LAMBDA e : e # "embedding")

\* the number of times a stage is in a log
Count(log, e) == Cardinality({i \in DOMAIN log : log[i] = e})

\* the question matches one of the guardrail patterns
MatchesGuardrail ==
  [q \in AskedQuestions |-> \E p \in blockedMedicalPatterns : PatternTest(p, q)]

\* the requests whose question is 4 to 800 characters long after trimming
WithinLength ==
  {raw \in Questions : /\ Len(questionOf[raw]) >= MinQuestionLength
                       /\ Len(questionOf[raw]) <= MaxQuestionLength}

\* the fixed refusal, as the caller sees it
Refusal ==
  [status |-> 200, error |-> "", answer |-> RefusalAnswer, sources |-> <<>>,
   cached |-> FALSE]

(***************************************************************************)
(* C1                                                                      *)
(***************************************************************************)
\* what handling a guardrail question comes to: the fixed refusal with no
\* sources, after the guardrail stage alone, the cache, its file and the
\* suspended provider calls left as they were
RefusedUntouched(raw) ==
  /\ completed' = <<[question |-> questionOf[raw], contextItems |-> <<>>,
                     log |-> <<"guardrail">>, abandoned |-> FALSE,
                     response |-> Refusal]>>
  /\ UNCHANGED <<chatCache, cacheFile, requests>>

\* C1 as stated: a question that matches a guardrail pattern always gets the
\* fixed refusal with an empty source list, and handling it reads, writes and
\* evicts no cache entry and calls neither retrieval nor a provider
C1_AnyMatchingQuestionRefused ==
  [][\A raw \in Questions :
       (MatchesGuardrail[questionOf[raw]] /\ ChatStart(raw))
         => RefusedUntouched(raw)]_vars

\* C1 amended: with the chatbot enabled, a question of 4 to 800 characters
\* after trimming that matches a guardrail pattern gets the fixed refusal with
\* an empty source list, whatever the cache and the index hold, and handling it
\* reads, writes and evicts no cache entry and calls neither retrieval nor a
\* provider
C1_AcceptedMatchingQuestionRefused ==
  [][\A raw \in WithinLength :
       ( /\ CHATBOT_ENABLED
         /\ MatchesGuardrail[questionOf[raw]]
         /\ ChatStart(raw) )
         => RefusedUntouched(raw)]_vars

\* a guardrail question is refused while the cache holds an entry for the
\* words it normalizes to and another request waits for a provider
C1_Witness ==
  /\ Answered
  /\ MatchesGuardrail[Done.question]
  /\ Done.response = Refusal
  /\ normalizeText(Done.question) \in DOMAIN chatCache
  /\ Len(ragDocuments) > 0
  /\ requests # EmptyBag

(***************************************************************************)
(* C2                                                                      *)
(***************************************************************************)
StageOrder == <<"guardrail", "faq", "cacheRead", "retrieval", "generation", "cacheWrite">>

IsPrefix(s, t) == Len(s) <= Len(t) /\ \A i \in DOMAIN s : s[i] = t[i]

\* the logs of the requests under way and of the one just answered
LogsSoFar ==
  {f.log : f \in BagToSet(requests)} \cup {completed[i].log : i \in DOMAIN completed}

\* a stage that produced the response was the last one to run
ProducerRanLast ==
  Answered =>
    /\ Done.response = Refusal => Stages(Done.log) = SubSeq(StageOrder, 1, 1)
    /\ (\E i \in DOMAIN ragFaqs : Done.response = FaqResponse(ragFaqs[i]))
         => Stages(Done.log) = SubSeq(StageOrder, 1, 2)
    /\ Done.response.cached => Stages(Done.log) = SubSeq(StageOrder, 1, 3)

\* C2 as stated: the stages of every request run in the order guardrail, FAQ
\* match, cache read, retrieval, generation, cache write; a stage runs only if
\* every earlier stage ran and did not produce the response, and the cache
\* write is the last one
C2_StagesInFixedOrder ==
  /\ \A log \in LogsSoFar : IsPrefix(Stages(log), StageOrder)
  /\ ProducerRanLast

\* retrieval found no context, and the fixed no-information answer was written
\* to the cache and returned with no generation call
NoContextShortcut(log) ==
  /\ Answered
  /\ log = Done.log
  /\ Done.contextItems = <<>>
  /\ Done.response.answer = noDataAnswer
  /\ Stages(log) = SubSeq(StageOrder, 1, 4) \o <<"cacheWrite">>

\* C2 amended: the stages of every request run in the order guardrail, FAQ
\* match, cache read, retrieval, generation, cache write, a stage running only
\* if every earlier stage ran and did not produce the response and the cache
\* write being last, except that a retrieval that finds no context is followed
\* by the cache write of the no-information answer without a generation stage
C2_StagesInOrderOrNoContext ==
  /\ \A log \in LogsSoFar :
       IsPrefix(Stages(log), StageOrder) \/ NoContextShortcut(log)
  /\ ProducerRanLast

\* a request answered after all six stages, its retrieval with an embedding call
C2_Witness ==
  /\ Answered
  /\ Stages(Done.log) = StageOrder
  /\ Count(Done.log, "embedding") = 1
  /\ Done.response.status = 200

(***************************************************************************)
(* C3                                                                      *)
(***************************************************************************)
\* normalize(q) of the questions asked
NormalizedOf == [q \in AskedQuestions |-> normalizeText(q)]

\* the question matches an FAQ
MatchesFaq ==
  [faqs \in FaqStates |-> [q \in AskedQuestions |-> findFaqAnswer(q, faqs) # 0]]

\* the cache holds an entry for the key that is less than the TTL old
HoldsFresh(cacheKey) ==
  /\ cacheKey \in DOMAIN chatCache
  /\ now - chatCache[cacheKey].timestamp < ttlMs

\* the request gets the stored answer and sources, marked as cache-served,
\* after the cache read, with no provider call started
ServedFromCache(raw) ==
  LET item == chatCache[NormalizedOf[questionOf[raw]]]
  IN  /\ completed' = <<[question |-> questionOf[raw], contextItems |-> <<>>,
                         log |-> <<"guardrail", "faq", "cacheRead">>,
                         abandoned |-> FALSE,
                         response |-> [status |-> 200, error |-> "",
                                       answer |-> item.answer,
                                       sources |-> item.sources,
                                       cached |-> TRUE]]>>
      /\ requests' = requests

\* C3 as stated: while the cache holds an entry written for q that is not stale
\* yet, any question q' with normalize(q') = normalize(q) that matches neither
\* a guardrail pattern nor an FAQ returns exactly the stored answer and
\* sources, marked as cache-served, with no embedding or generation call
C3_SameNormalizedQuestionServedFromCache ==
  [][\A raw \in Questions :
       ( /\ HoldsFresh(NormalizedOf[questionOf[raw]])
         /\ ~MatchesGuardrail[questionOf[raw]]
         /\ ~MatchesFaq[ragFaqs][questionOf[raw]]
         /\ ChatStart(raw) )
         => ServedFromCache(raw)]_vars

\* C3 amended: the same for a question q' of 4 to 800 characters after trimming
C3_AcceptedQuestionServedFromCache ==
  [][\A raw \in WithinLength :
       ( /\ HoldsFresh(NormalizedOf[questionOf[raw]])
         /\ ~MatchesGuardrail[questionOf[raw]]
         /\ ~MatchesFaq[ragFaqs][questionOf[raw]]
         /\ ChatStart(raw) )
         => ServedFromCache(raw)]_vars

\* a question in another case and punctuation than its normal form is served
\* the entry of that normal form, written earlier on
C3_Witness ==
  /\ Answered
  /\ Done.question = questionOf[QDoseDietVariant]
  /\ Done.question # NormalizedOf[Done.question]
  /\ Done.response.cached
  /\ NormalizedOf[Done.question] \in DOMAIN chatCache
  /\ LET item == chatCache[NormalizedOf[Done.question]]
     IN  /\ item.timestamp < now
         /\ Done.response.answer = item.answer
         /\ Done.response.sources = item.sources
         /\ Len(item.sources) > 0

(***************************************************************************)
(* C4, C5                                                                  *)
(***************************************************************************)
\* the handler reads the cache for this question in this step: the chatbot is
\* enabled, and the question is accepted and matches no guardrail and no FAQ
ReadsCache(raw) ==
  /\ CHATBOT_ENABLED
  /\ raw \in WithinLength
  /\ ~MatchesGuardrail[questionOf[raw]]
  /\ ~MatchesFaq[ragFaqs][questionOf[raw]]
  /\ ChatStart(raw)

\* the age of the entry the read finds
AgeRead(raw) == now - chatCache[NormalizedOf[questionOf[raw]]].timestamp

\* after the step the store holds no entry for the key that was written
\* before the step
GoneFrom(store, raw) ==
  LET cacheKey == NormalizedOf[questionOf[raw]]
  IN  cacheKey \in DOMAIN store =>
        /\ store[cacheKey].timestamp = now
        /\ store[cacheKey] # chatCache[cacheKey]

\* the request went on past the cache read: it waits for a provider, or it was
\* answered otherwise than from the cache
TookLivePath(raw) ==
  \/ /\ completed' = <<>>
     /\ \E f \in BagToSet(requests') :
          /\ f.question = questionOf[raw]
          /\ IsPrefix(SubSeq(StageOrder, 1, 4), f.log)
          /\ CopiesIn(f, requests') = CopiesIn(f, requests) + 1
  \/ /\ completed' # <<>>
     /\ completed'[1].question = questionOf[raw]
     /\ IsPrefix(SubSeq(StageOrder, 1, 3), completed'[1].log)
     /\ ~completed'[1].response.cached

\* C4: an entry written at T0 is returned as cached by a read at
\* T0 + TTL - 1 ms, and a read at T0 + TTL + 1 ms treats it as absent: the entry
\* is evicted and the request takes the live path
C4_CachedBeforeTtlAbsentAfter ==
  [][\A raw \in WithinLength :
       (NormalizedOf[questionOf[raw]] \in DOMAIN chatCache /\ ReadsCache(raw))
         => /\ AgeRead(raw) = ttlMs - 1 => ServedFromCache(raw)
            /\ AgeRead(raw) = ttlMs + 1
                 => GoneFrom(chatCache', raw) /\ TookLivePath(raw)]_vars

\* an entry written 1 ms after the start was served TTL - 1 ms later
C4_Witness ==
  /\ Answered
  /\ Done.response.cached
  /\ NormalizedOf[Done.question] \in DOMAIN chatCache
  /\ chatCache[NormalizedOf[Done.question]].timestamp = 1
  /\ now = 1 + ttlMs - 1

\* C5 as stated: a read returns the entry only when now - timestamp < TTL; an
\* entry with now - timestamp >= TTL, exactly TTL included, is stale: it is
\* removed from the cache in memory, the removal is persisted, and the request
\* falls through to live generation
C5_StaleFromExactlyTtl ==
  [][\A raw \in WithinLength :
       (NormalizedOf[questionOf[raw]] \in DOMAIN chatCache /\ ReadsCache(raw))
         => /\ ServedFromCache(raw) => AgeRead(raw) < ttlMs
            /\ AgeRead(raw) >= ttlMs
                 => /\ GoneFrom(chatCache', raw)
                    /\ GoneFrom(cacheFile', raw)
                    /\ TookLivePath(raw)]_vars

(***************************************************************************)
(* C6, C7                                                                  *)
(***************************************************************************)
\* the request just answered got a successful answer that is neither the
\* guardrail refusal nor an FAQ shortcut
AnsweredPastFaq ==
  /\ Answered
  /\ Done.response.status = 200
  /\ ~MatchesGuardrail[Done.question]
  /\ ~MatchesFaq[ragFaqs][Done.question]

\* the cache holds under normalize(question) the answer and sources returned
HoldsReturned ==
  /\ NormalizedOf[Done.question] \in DOMAIN chatCache
  /\ chatCache[NormalizedOf[Done.question]].answer = Done.response.answer
  /\ chatCache[NormalizedOf[Done.question]].sources = Done.response.sources

C7_WriteOnlyIfDelivered ==
  (Answered /\ Count(Done.log, "cacheWrite") > 0) =>
    /\ Done.response.status = 200
    /\ HoldsReturned
    /\ ~Done.abandoned

(***************************************************************************)
(* C8, C9                                                                  *)
(***************************************************************************)
\* the 'temporarily unavailable' outcome, as the caller sees it
Unavailable ==
  [status |-> 500, error |-> "Chat assistant is temporarily unavailable.",
   answer |-> <<>>, sources |-> <<>>, cached |-> FALSE]

\* the request of frame f ends in this step with the 'temporarily unavailable'
\* outcome: the handler returns, after the one generation call it made, and
\* the cache and its file stay as they were
EndsUnavailable(f) ==
  /\ completed' # <<>>
  /\ completed'[1].question = f.question
  /\ completed'[1].response = Unavailable
  /\ completed'[1].log = f.log
  /\ Count(f.log, "generation") = 1
  /\ Count(f.log, "cacheWrite") = 0
  /\ requests' = requests (-) SetToBag({f})
  /\ UNCHANGED <<chatCache, cacheFile>>

\* C8: a timeout or an error of the generation call ends the request with the
\* one 'temporarily unavailable' outcome: the handler returns, the provider is
\* not called again for the request, and no cache entry is written
C8_GenerationFailureUnavailable ==
  [][\A f \in BagToSet(requests), outcome \in GenerationOutcomes :
       (outcome.kind \in {"error", "timeout"} /\ GenerationReturn(f, outcome))
         => EndsUnavailable(f)]_vars

\* a request whose generation call failed was answered 'temporarily
\* unavailable' and the cache has no entry for its question
C8_Witness ==
  /\ Answered
  /\ Done.response = Unavailable
  /\ Count(Done.log, "generation") = 1
  /\ NormalizedOf[Done.question] \notin DOMAIN chatCache

\* C9 as stated: a generation response that carries no answer text is treated
\* as a provider error: the request ends with the 'temporarily unavailable'
\* outcome, not with a successful answer, and nothing is written to the cache
C9_MalformedResponseUnavailable ==
  [][\A f \in BagToSet(requests), outcome \in GenerationOutcomes :
       (outcome.kind = "nocontent" /\ GenerationReturn(f, outcome))
         => EndsUnavailable(f)]_vars

(***************************************************************************)
(* C10                                                                     *)
(***************************************************************************)
\* the keyword-mode result for the questions asked, limit CHATBOT_CONTEXT_CHUNKS
KeywordResult ==
  [index \in IndexStates |->
     [q \in AcceptedQuestions |->
        retrieveByKeyword(q, CHATBOT_CONTEXT_CHUNKS, index.docs)]]

\* the handler of frame f goes on with these context items: to the generation
\* call when there are some, to the no-information answer when there are none
GoesOnWith(f, items) ==
  IF Len(items) > 0
    THEN /\ completed' = <<>>
         /\ LET g == [pc |-> "generation", question |-> f.question,
                      contextItems |-> items, log |-> f.log \o <<"generation">>]
            IN  requests' = (requests (-) SetToBag({f})) (+) SetToBag({g})
    ELSE /\ completed' # <<>>
         /\ completed'[1].question = f.question
         /\ completed'[1].response.status = 200
         /\ completed'[1].response.answer = noDataAnswer

\* C10: when the embedding call fails, times out or returns no vector,
\* retrieval returns the keyword-mode result for the same question and limit,
\* and the request goes on with it
C10_VectorFailureFallsBackToKeyword ==
  [][\A f \in BagToSet(requests), outcome \in EmbeddingOutcomes :
       (outcome.kind \in {"error", "timeout", "novector"}
          /\ EmbeddingReturn(f, outcome))
         => GoesOnWith(f, KeywordResult[ragIndex][f.question])]_vars

\* a request waits for generation with the keyword-mode result as its context
\* in a server that retrieves by vector, where a vector result would differ
C10_Witness ==
  /\ UsesVectorMode(OPENAI_API_KEY # "", ragDocuments, ragEmbeddingsById)
  /\ \E f \in BagToSet(requests) :
       /\ f.pc = "generation"
       /\ Count(f.log, "embedding") = 1
       /\ f.contextItems = KeywordResult[ragIndex][f.question]
       /\ \E outcome \in EmbeddingOutcomes :
            /\ outcome.kind = "vector"
            /\ f.contextItems # afterEmbeddingOf[ragIndex][f.question][outcome]

(***************************************************************************)
(* C11                                                                     *)
(***************************************************************************)
\* C11 as stated: with no provider credential, a guardrail question still gets
\* the refusal and an FAQ question its FAQ answer, both as successful answers,
\* and keyword retrieval still runs for every other question: the missing
\* credential fails the embedding and the generation call alone
C11_KeywordRetrievalRunsWithoutCredential ==
  (Answered /\ OPENAI_API_KEY = "" /\ CHATBOT_ENABLED
     /\ Done.question \in AcceptedQuestions) =>
    IF MatchesGuardrail[Done.question]
      THEN Done.response = Refusal
    ELSE IF MatchesFaq[ragFaqs][Done.question]
      THEN /\ Done.response.status = 200
           /\ \E i \in DOMAIN ragFaqs : Done.response = FaqResponse(ragFaqs[i])
    ELSE Done.response.cached \/ Count(Done.log, "retrieval") = 1

(***************************************************************************)
(* C12                                                                     *)
(***************************************************************************)
\* C12 as stated: a persisted cache that cannot be read at startup is
\* discarded, the server starts with an empty cache, and no later question
\* fails because of what the cache file held: a request ends 'temporarily
\* unavailable' only after a failed generation call
C12_NoQuestionFailsOnPersistedCache ==
  /\ (cacheFileAtStartup = "unparsable" /\ now = 0
        /\ requests = EmptyBag /\ ~Answered)
       => ~ChatCacheIsNull /\ chatCache = EmptyCache
  /\ (Answered /\ Done.response.status = 500)
       => Count(Done.log, "generation") = 1

(***************************************************************************)
(* C13                                                                     *)
(***************************************************************************)
\* the normal forms of the questions asked that normalize leaves as they are
NormalKeys ==
  {k \in {NormalizedOf[q] : q \in AskedQuestions} : normalizeText(k) = k}

\* C13: starting from an empty cache, every key of the cache is a normalized
\* question text, k = normalize(k), and the normal form of a question asked;
\* no raw question text is a key
C13_CacheKeysNormalized == DOMAIN chatCache \subseteq NormalKeys

\* a live answer to a question that differs from its normal form was cached,
\* and the cache has a key
C13_Witness ==
  /\ Answered
  /\ Count(Done.log, "cacheWrite") = 1
  /\ Done.question # NormalizedOf[Done.question]
  /\ DOMAIN chatCache = {NormalizedOf[Done.question]}
  /\ Done.question \notin DOMAIN chatCache

(***************************************************************************)
(* C14                                                                     *)
(***************************************************************************)
\* the cache after the request answered in this step wrote its entry: the
\* entry of that request under its key, every other entry as it was
CacheAfterWriteOf(done) ==
  LET cacheKey == NormalizedOf[done.question]
  IN  [k \in DOMAIN chatCache \cup {cacheKey} |->
         IF k = cacheKey
           THEN [answer |-> done.response.answer,
                 sources |-> done.response.sources,
                 timestamp |-> now]
           ELSE chatCache[k]]

\* C14: with requests for one cache key in flight at once that all missed the
\* cache, every one of them writes; each write leaves under the key exactly
\* the answer, sources and timestamp of the request that wrote, so that after
\* all of them the entry is the one of the last write, never a mixture, and no
\* write loses or changes the entry of another key
C14_LastWriterWins ==
  [][IF completed' # <<>> /\ Count(completed'[1].log, "cacheWrite") = 1
       THEN chatCache' = CacheAfterWriteOf(completed'[1])
       ELSE chatCache' = chatCache]_vars

\* a request that missed the cache wrote its entry over the one that a
\* request in flight at the same time had left under the same key (the file,
\* whose last write failed, still holds that earlier entry), and the entry of
\* the other key is in the cache
C14_Witness ==
  /\ Answered
  /\ Count(Done.log, "cacheWrite") = 1
  /\ ~Done.response.cached
  /\ \E k \in DOMAIN chatCache : k # NormalizedOf[Done.question]
  /\ NormalizedOf[Done.question] \in DOMAIN cacheFile
  /\ cacheFile[NormalizedOf[Done.question]].answer
       # chatCache[NormalizedOf[Done.question]].answer
  /\ chatCache[NormalizedOf[Done.question]].answer = Done.response.answer

(***************************************************************************)
(* C15                                                                     *)
(***************************************************************************)
\* the score of a prompt for a question with tokens, as the fraction num / den
PromptScore(question, prompt) ==
  [num |-> Cardinality(TokenSet(question) \cap TokenSet(prompt)),
   den |-> Max(Cardinality(TokenSet(question)), Cardinality(TokenSet(prompt)))]

\* the entry the matcher is to return, 0 for none: the first in list order
\* with a prompt of the greatest score, if that score is at least 7/10
FirstBestEntry(question, faqs) ==
  LET prompts == UNION {{<<i, j>> : j \in 1..Len(faqs[i].prompts)} : i \in 1..Len(faqs)}
      score(ij) == PromptScore(question, faqs[ij[1]].prompts[ij[2]])
      AtLeast(x, y) == x.num * y.den >= y.num * x.den
      top == CHOOSE b \in prompts : \A c \in prompts : AtLeast(score(b), score(c))
      attaining == {ij[1] : ij \in {c \in prompts : AtLeast(score(c), score(top))}}
      first == CHOOSE i \in attaining : \A k \in attaining : i <= k
  IN  IF TokenSet(question) = {} \/ prompts = {} THEN 0
      ELSE IF score(top).num * 10 >= 7 * score(top).den THEN first
      ELSE 0

\* C15: the FAQ matcher scores every prompt of every entry as the number of
\* tokens common to question and prompt over the larger of the two token
\* counts, and answers with the first entry in list order that attains the
\* greatest score if that score is at least 0.7 (exactly 0.7 included); in
\* every other case, that of a question without tokens among them, no entry
\* matches and the request goes on to the cache
C15_FaqMatcherFirstBestAtLeastThreshold ==
  (Answered /\ Count(Done.log, "faq") = 1) =>
    LET entry == FirstBestEntry(Done.question, ragFaqs)
    IN  IF entry # 0
          THEN /\ Done.log = <<"guardrail", "faq">>
               /\ Done.response = FaqResponse(ragFaqs[entry])
          ELSE /\ Len(Done.log) >= 3
               /\ Done.log[3] = "cacheRead"
               /\ \A i \in 1..Len(ragFaqs) : Done.response # FaqResponse(ragFaqs[i])

\* a question whose best prompt scores exactly 7/10 was answered with the
\* entry of that prompt, the second of the list
C15_Witness ==
  /\ Answered
  /\ Len(ragFaqs) > 1
  /\ FirstBestEntry(Done.question, ragFaqs) = 2
  /\ \E j \in 1..Len(ragFaqs[2].prompts) :
       PromptScore(Done.question, ragFaqs[2].prompts[j]) = [num |-> 7, den |-> 10]
  /\ Done.response = FaqResponse(ragFaqs[2])

(***************************************************************************)
(* C16                                                                     *)
(***************************************************************************)
\* what handling a question the FAQ answers comes to: the answer and the
\* sources of an FAQ entry, not marked as cache-served, after the guardrail
\* and FAQ stages alone, the cache, its file and the suspended provider calls
\* left as they were
AnsweredByFaqAlone(raw) ==
  /\ \E i \in DOMAIN ragFaqs :
       completed' = <<[question |-> questionOf[raw], contextItems |-> <<>>,
                       log |-> <<"guardrail", "faq">>, abandoned |-> FALSE,
                       response |-> [status |-> 200, error |-> "",
                                     answer |-> ragFaqs[i].answer \o FaqDisclaimer,
                                     sources |-> ragFaqs[i].sources,
                                     cached |-> FALSE]]>>
  /\ UNCHANGED <<chatCache, cacheFile, writeFailures, requests>>

\* C16: a question the FAQ shortcut answers bypasses cache, retrieval and
\* generation: handling it reads, writes and evicts no cache entry, starts no
\* provider call, and returns the FAQ answer as not cache-served, whatever
\* the cache holds for the normalized question
C16_FaqAnswerBypassesCacheAndProviders ==
  [][\A raw \in WithinLength :
       (/\ MatchesFaq[ragFaqs][questionOf[raw]]
        /\ ~MatchesGuardrail[questionOf[raw]]
        /\ CHATBOT_ENABLED
        /\ ChatStart(raw))
         => AnsweredByFaqAlone(raw)]_vars

\* the FAQ answered a question while the cache held an entry for its normal
\* form that was less than the TTL old
C16_Witness ==
  /\ Answered
  /\ Done.log = <<"guardrail", "faq">>
  /\ ~ChatCacheIsNull
  /\ HoldsFresh(NormalizedOf[Done.question])
  /\ ~Done.response.cached
  /\ Done.response.answer # chatCache[NormalizedOf[Done.question]].answer

(***************************************************************************)
(* C17                                                                     *)
(***************************************************************************)
\* the number of tokens of the question that the title or the content of the
\* document holds
KeywordOverlap(question, doc) ==
  Cardinality(TokenSet(question) \cap (TokenSet(doc.title) \cup TokenSet(doc.content)))

\* the keyword score overlap / max(1, |Q|) of a document, as a score
KeywordScore(question, doc) ==
  LET n == Max(1, Cardinality(TokenSet(question)))
  IN  [dot |-> KeywordOverlap(question, doc), sq |-> n * n]

\* the places in ragDocuments of the documents with a keyword score above 0
KeywordMatches(question) ==
  {i \in 1..Len(ragDocuments) : KeywordOverlap(question, ragDocuments[i]) > 0}

\* the items are documents of positive keyword score with that score, no
\* document twice, in descending order of score, as many as the limit allows,
\* and no document left out scores more than one that is in
IsKeywordResult(items, question) ==
  /\ Len(items) = Min(CHATBOT_CONTEXT_CHUNKS, Cardinality(KeywordMatches(question)))
  /\ \A a \in 1..Len(items) :
       \E i \in KeywordMatches(question) :
         items[a] = [doc |-> ragDocuments[i],
                     score |-> KeywordScore(question, ragDocuments[i])]
  /\ \A a, b \in 1..Len(items) :
       a < b => /\ items[a].doc # items[b].doc
                /\ ~ScoreGreater(items[b].score, items[a].score)
  /\ \A i \in KeywordMatches(question), a \in 1..Len(items) :
       (\A b \in 1..Len(items) : items[b].doc # ragDocuments[i])
         => ~ScoreGreater(KeywordScore(question, ragDocuments[i]), items[a].score)

\* the request reached its context by keyword retrieval with no embedding call
ByKeywordAlone(log) == Count(log, "retrieval") = 1 /\ Count(log, "embedding") = 0

\* C17: keyword retrieval returns exactly the documents whose score
\* |Q \cap tokens(title and content)| / max(1, |Q|) is above 0, in descending
\* order of score, cut to the first CHATBOT_CONTEXT_CHUNKS; a question
\* without tokens gets no document
C17_KeywordRetrievalPositiveSortedTruncated ==
  /\ \A f \in BagToSet(requests) :
       ByKeywordAlone(f.log) => IsKeywordResult(f.contextItems, f.question)
  /\ (Answered /\ ByKeywordAlone(Done.log))
       => /\ IsKeywordResult(Done.contextItems, Done.question)
          /\ TokenSet(Done.question) = {} => Done.contextItems = <<>>

\* a request waits for generation with the keyword result of a question that
\* more documents match than the limit allows, the best of them not the
\* first of the documents
C17_Witness ==
  \E f \in BagToSet(requests) :
    /\ ByKeywordAlone(f.log)
    /\ f.pc = "generation"
    /\ Cardinality(KeywordMatches(f.question)) > CHATBOT_CONTEXT_CHUNKS
    /\ Len(f.contextItems) = CHATBOT_CONTEXT_CHUNKS
    /\ f.contextItems[1].doc # ragDocuments[1]
    /\ ScoreGreater(f.contextItems[1].score, f.contextItems[2].score)
    /\ \E i \in 1..Len(ragDocuments) : KeywordOverlap(f.question, ragDocuments[i]) = 0

(***************************************************************************)
(* C18                                                                     *)
(***************************************************************************)
\* the similarity of two vectors as a score: -1 when the dimensions differ
\* or one of them has zero norm, the cosine otherwise
Similarity(a, b) ==
  LET Sum(u, v) ==
        LET S[i \in 0..Len(u)] == IF i = 0 THEN 0 ELSE S[i - 1] + u[i] * v[i]
        IN  S[Len(u)]
  IN  IF Len(a) # Len(b) THEN MinusOne
      ELSE IF Sum(a, a) = 0 \/ Sum(b, b) = 0 THEN MinusOne
      ELSE [dot |-> Sum(a, b), sq |-> Sum(a, a) * Sum(b, b)]

\* the places in ragDocuments of the documents that have an embedding record
\* of similarity above 0 to the query vector
VectorMatches(queryEmbedding) ==
  {i \in 1..Len(ragDocuments) :
     /\ ragDocuments[i].id \in DOMAIN ragEmbeddingsById
     /\ ScorePositive(Similarity(queryEmbedding,
                                 ragEmbeddingsById[ragDocuments[i].id]))}

VectorScore(queryEmbedding, doc) ==
  Similarity(queryEmbedding, ragEmbeddingsById[doc.id])

ScoreEqual(x, y) == ~ScoreGreater(x, y) /\ ~ScoreGreater(y, x)

\* the place of a document in ragDocuments
Position(doc) == CHOOSE i \in 1..Len(ragDocuments) : ragDocuments[i] = doc

\* items of equal score are in document order, and a matching document that
\* was cut with the score of an item comes after that item in document order
TiesInDocumentOrder(items, matches, scoreOf(_)) ==
  /\ \A a, b \in 1..Len(items) :
       (a < b /\ ScoreEqual(items[a].score, items[b].score))
         => Position(items[a].doc) < Position(items[b].doc)
  /\ \A i \in matches, a \in 1..Len(items) :
       (/\ \A b \in 1..Len(items) : items[b].doc # ragDocuments[i]
        /\ ScoreEqual(scoreOf(ragDocuments[i]), items[a].score))
         => Position(items[a].doc) < i

KeywordTiesInDocumentOrder(items, question) ==
  TiesInDocumentOrder(items, KeywordMatches(question),
                      LAMBDA doc : KeywordScore(question, doc))

\* the context the handler of frame f has after this step
ContextAfter(f) ==
  IF completed' # <<>> THEN completed'[1].contextItems
  ELSE (CHOOSE g \in BagToSet(requests') : g.question = f.question).contextItems

\* C18: in keyword mode and in vector mode, documents of equal score are in
\* the result in the order they have in the document list, and where the cut
\* to the limit falls between documents of equal score the earlier ones stay
C18_EqualScoresKeepDocumentOrder ==
  [][/\ \A g \in BagToSet(requests') :
          ByKeywordAlone(g.log)
            => KeywordTiesInDocumentOrder(g.contextItems, g.question)
     /\ \A f \in BagToSet(requests), outcome \in RetrievalOutcomes :
          EmbeddingReturn(f, outcome) =>
            IF outcome.kind = "vector" /\ VectorMatches(outcome.vector) # {}
              THEN TiesInDocumentOrder(ContextAfter(f),
                                       VectorMatches(outcome.vector),
                                       LAMBDA doc : VectorScore(outcome.vector, doc))
              ELSE KeywordTiesInDocumentOrder(ContextAfter(f), f.question)]_vars

\* a request waits for generation with a vector-mode result for a query
\* vector to which more documents than the limit allows have the same
\* similarity: the first of them in document order
C18_Witness ==
  \E f \in BagToSet(requests), outcome \in RetrievalOutcomes :
    /\ f.pc = "generation"
    /\ Count(f.log, "embedding") = 1
    /\ outcome.kind = "vector"
    /\ Cardinality(VectorMatches(outcome.vector)) > CHATBOT_CONTEXT_CHUNKS
    /\ \A i, k \in VectorMatches(outcome.vector) :
         ScoreEqual(VectorScore(outcome.vector, ragDocuments[i]),
                    VectorScore(outcome.vector, ragDocuments[k]))
    /\ f.contextItems =
         [a \in 1..CHATBOT_CONTEXT_CHUNKS |->
            [doc |-> ragDocuments[a],
             score |-> VectorScore(outcome.vector, ragDocuments[a])]]
    /\ ragDocuments[1].id # "diet-1"

(***************************************************************************)
(* C19                                                                     *)
(***************************************************************************)
ZeroNorm(v) == \A i \in 1..Len(v) : v[i] = 0

\* one of the two vectors has zero norm, or their dimensions differ
Degenerate(a, b) == Len(a) # Len(b) \/ ZeroNorm(a) \/ ZeroNorm(b)

\* the documents with an embedding record
Embedded == {i \in 1..Len(ragDocuments) : ragDocuments[i].id \in DOMAIN ragEmbeddingsById}

\* C19: the similarity of the query vector and a stored vector is -1 when one
\* of them has zero norm or their dimensions differ, and the result that
\* vector mode returns holds no document with such a stored vector, nor one
\* whose similarity to the query is 0 or less, nor one without a record
C19_DegenerateVectorsMinusOneAndExcluded ==
  [][\A f \in BagToSet(requests), outcome \in RetrievalOutcomes :
       (outcome.kind = "vector" /\ EmbeddingReturn(f, outcome)) =>
         /\ \A i \in Embedded :
              LET stored == ragEmbeddingsById[ragDocuments[i].id]
              IN  Degenerate(outcome.vector, stored)
                    => cosineSimilarity(outcome.vector, stored) = MinusOne
         /\ VectorMatches(outcome.vector) # {} =>
              \A a \in 1..Len(ContextAfter(f)) :
                LET doc == ContextAfter(f)[a].doc
                IN  /\ Position(doc) \in Embedded
                    /\ ~Degenerate(outcome.vector, ragEmbeddingsById[doc.id])
                    /\ ScorePositive(VectorScore(outcome.vector, doc))
                    /\ ContextAfter(f)[a].score = VectorScore(outcome.vector, doc)]_vars

\* a request waits for generation with a vector-mode result that leaves out
\* a document with a record of zero norm and one with a record of another
\* dimension than the query vector, one of which has tokens of the question
C19_Witness ==
  \E f \in BagToSet(requests), outcome \in RetrievalOutcomes :
    /\ f.pc = "generation"
    /\ Count(f.log, "embedding") = 1
    /\ outcome.kind = "vector"
    /\ VectorMatches(outcome.vector) # {}
    /\ \A a \in 1..Len(f.contextItems) :
         /\ Position(f.contextItems[a].doc) \in VectorMatches(outcome.vector)
         /\ f.contextItems[a].score = VectorScore(outcome.vector, f.contextItems[a].doc)
    /\ \E i \in Embedded : ZeroNorm(ragEmbeddingsById[ragDocuments[i].id])
    /\ \E i \in Embedded :
         /\ Len(ragEmbeddingsById[ragDocuments[i].id]) # Len(outcome.vector)
         /\ KeywordOverlap(f.question, ragDocuments[i]) > 0
         /\ \A a \in 1..Len(f.contextItems) : f.contextItems[a].doc # ragDocuments[i]

(***************************************************************************)
(* C20                                                                     *)
(***************************************************************************)
\* C20 as stated: when the embedding index has records for only some of the
\* documents, a document without a record is still scored by keyword
\* retrieval for the question, so that in vector mode such a document with
\* tokens of the question is returned whenever the limit leaves room for it
C20_UnembeddedDocumentsScoredByKeyword ==
  [][\A f \in BagToSet(requests), outcome \in RetrievalOutcomes :
       (/\ outcome.kind = "vector"
        /\ Embedded # {}
        /\ EmbeddingReturn(f, outcome))
         => \A i \in (1..Len(ragDocuments)) \ Embedded :
              (/\ KeywordOverlap(f.question, ragDocuments[i]) > 0
               /\ Len(ContextAfter(f)) < CHATBOT_CONTEXT_CHUNKS)
                => \E a \in 1..Len(ContextAfter(f)) :
                     ContextAfter(f)[a].doc = ragDocuments[i]]_vars

(***************************************************************************)
(* C30                                                                     *)
(***************************************************************************)
\* the fixed answer of a question without context, as the caller sees it
NoContextReply ==
  [status |-> 200, error |-> "", answer |-> noDataAnswer, sources |-> <<>>,
   cached |-> FALSE]

\* C30: a request whose retrieval returned no context succeeds with the fixed
\* 'not enough trusted information' answer and no sources, never calls the
\* generation provider, and its answer is in the cache under the normalized
\* question with the time of the answer
C30_NoContextAnsweredAndCached ==
  /\ \A f \in BagToSet(requests) : f.pc = "generation" => Len(f.contextItems) > 0
  /\ (Answered /\ Count(Done.log, "retrieval") = 1 /\ Len(Done.contextItems) = 0)
       => /\ Done.response = NoContextReply
          /\ Count(Done.log, "generation") = 0
          /\ NormalizedOf[Done.question] \in DOMAIN chatCache
          /\ chatCache[NormalizedOf[Done.question]] =
               [answer |-> noDataAnswer, sources |-> <<>>, timestamp |-> now]

\* a question with tokens that no document holds was answered after an
\* embedding call with the fixed answer, which is in the cache
C30_Witness ==
  /\ Answered
  /\ Count(Done.log, "embedding") = 1
  /\ Len(Done.contextItems) = 0
  /\ TokenSet(Done.question) # {}
  /\ Done.response = NoContextReply
  /\ chatCache[NormalizedOf[Done.question]].answer = noDataAnswer
  /\ Len(ragDocuments) > 0

(***************************************************************************)
(* Properties of the knowledge build                                       *)
(***************************************************************************)
Built == knowledgeExit.code = 0

BuiltDocuments == documentsJson[1]

\* C21: every chunk the build writes has at most MAX_CHARS characters,
\* whatever the text and the settings.  The code does not keep it: the chunk
\* begun after a flush is the overlap tail, a paragraph break and the next
\* paragraph, which is checked against no limit.
C21_ChunksWithinMaxChars ==
  Built => \A i \in 1..Len(BuiltDocuments) : Len(BuiltDocuments[i].content) <= MAX_CHARS

\* the stripped body of the only source file
BodyOfSource == stripMarkdown((CHOOSE f \in knowledgeFiles : TRUE).body)

\* the buffers chunkText seeded after a flush while it chunked the body
SeededBuffers == ChunkLoop(BodyOfSource, MAX_CHARS, OVERLAP_CHARS).seeded

\* text ends with suffix, and suffix begins at the start of text or right
\* after a white-space character of it
WordBoundarySuffix(suffix, text) ==
  /\ Len(suffix) <= Len(text)
  /\ suffix = SubSeq(text, Len(text) - Len(suffix) + 1, Len(text))
  /\ \/ Len(suffix) = Len(text)
     \/ IsWhitespace(text[Len(text) - Len(suffix)])

\* C22: a buffer seeded after an overflow flush starts with a suffix of the
\* chunk before it that has at most OVERLAP_CHARS characters and begins at a
\* word boundary, followed by the new paragraph.  The code does not keep it:
\* when the last OVERLAP_CHARS characters of the chunk hold no space, the
\* tail is taken as it is and begins inside a word.
C22_SeedBeginsAtWordBoundary ==
  Built =>
    \A i \in 1..Len(SeededBuffers) :
      LET seed == SeededBuffers[i]
      IN  /\ Len(seed.paragraph) <= MAX_CHARS
          /\ \E j \in 1..Len(BuiltDocuments) : BuiltDocuments[j].content = seed.previous
          /\ Len(seed.overlap) <= OVERLAP_CHARS
          /\ seed.overlap = <<>> \/ WordBoundarySuffix(seed.overlap, seed.previous)
          /\ seed.current = IF seed.overlap = <<>> THEN seed.paragraph
                            ELSE seed.overlap \o ParagraphBreak \o seed.paragraph

\* the name of the source file of a document
FileNameOf(doc) == doc.section \o <<".", "m", "d">>

\* the source files of the directory: those whose documents the build wants
SourcesOfDir == {f \in knowledgeFiles : IsSource(f.name)}

\* the documents of one source file, in the order of the list
DocumentsOfSection(section) == SelectSeq(BuiltDocuments, LAMBDA doc : doc.section = section)

\* the documents follow the sorted file names, and within a file the chunks
SourceThenChunkOrder ==
  /\ \A i, j \in 1..Len(BuiltDocuments) :
       i < j => \/ BuiltDocuments[i].section = BuiltDocuments[j].section
                \/ TextLess(FileNameOf(BuiltDocuments[i]), FileNameOf(BuiltDocuments[j]))
  /\ \A f \in SourcesOfDir :
       LET chunks == chunkText(stripMarkdown(f.body), MAX_CHARS, OVERLAP_CHARS)
           documents == DocumentsOfSection(StripMdSuffix(f.name))
       IN  /\ Len(documents) = Len(chunks)
           /\ \A i \in 1..Len(chunks) : documents[i].content = chunks[i]

\* C23: a second build from the same source files writes the same ordered
\* list of documents as the first, whatever the order in which the directory
\* lists its files; the list follows the sorted file names and, within a
\* file, the order of its chunks.
C23_RebuildSameOrderedDocuments ==
  /\ [](Built => SourceThenChunkOrder)
  /\ [][(Built /\ Built') => documentsJson' = documentsJson]_vars

C23_Witness ==
  /\ Built
  /\ knowledgeExit.run = 2
  /\ Cardinality(SourcesOfDir) >= 2
  /\ Cardinality({BuiltDocuments[i].section : i \in 1..Len(BuiltDocuments)}) >= 2
  /\ \E i \in 1..Len(BuiltDocuments) :
       Len(DocumentsOfSection(BuiltDocuments[i].section)) >= 2

\* the title of the documents of a source file
TitleOfFile(f) ==
  IF f.meta.title # <<>> THEN f.meta.title
  ELSE UnderscoresToSpaces(StripMdSuffix(f.name))

\* C24: a source file whose stripped body gives n chunks has exactly n
\* documents, with the ids slug-1 .. slug-n of its base name in chunk order;
\* for n > 1 the i-th is titled '<Title> (Part i)', for n = 1 it has the bare
\* title; a file whose stripped body is empty has no document.
C24_DocumentsPerSource ==
  Built =>
    \A f \in SourcesOfDir :
      LET base == StripMdSuffix(f.name)
          body == stripMarkdown(f.body)
          n == Len(chunkText(body, MAX_CHARS, OVERLAP_CHARS))
          documents == DocumentsOfSection(base)
      IN  /\ body = <<>> => Len(documents) = 0
          /\ Len(documents) = n
          /\ \A i \in 1..Len(documents) :
               /\ documents[i].id = slugify(base) \o <<"-">> \o ToDecimal(i)
               /\ documents[i].title =
                    IF n > 1 THEN TitleOfFile(f) \o <<" (Part ">> \o ToDecimal(i) \o <<")">>
                    ELSE TitleOfFile(f)

C24_Witness ==
  /\ Built
  /\ \E f \in SourcesOfDir : Len(DocumentsOfSection(StripMdSuffix(f.name))) >= 3
  /\ \E f \in SourcesOfDir :
       /\ Len(DocumentsOfSection(StripMdSuffix(f.name))) = 1
       /\ DocumentsOfSection(StripMdSuffix(f.name))[1].title = TitleOfFile(f)
  /\ \E f \in SourcesOfDir :
       /\ stripMarkdown(f.body) = <<>>
       /\ f.body # <<>>
       /\ Len(DocumentsOfSection(StripMdSuffix(f.name))) = 0

\* C29: a run on a FAQ list that fails validation (no list; an item that is
\* no object; prompts missing or empty; answer missing or blank) ends with an
\* error and leaves the document index, the FAQ list and the guardrail text
\* as they were, absent or as an earlier run wrote them.
C29_InvalidFaqsWriteNothing ==
  [][(faqJson \in InvalidFaqFiles)
       => (/\ (knowledgeExit').code = 1
           /\ (knowledgeExit').error # <<>>
           /\ documentsJson' = documentsJson
           /\ faqsJson' = faqsJson
           /\ guardrailsTxt' = guardrailsTxt)]_vars

C29_Witness ==
  /\ faqJson \in InvalidFaqFiles
  /\ knowledgeExit.code = 1
  /\ documentsJson = <<EarlierDocuments>>
  /\ \E listing \in Listings(knowledgeFiles) :
       /\ buildDocuments(knowledgeFiles, listing, MAX_CHARS, OVERLAP_CHARS) # EarlierDocuments
       /\ buildDocuments(knowledgeFiles, listing, MAX_CHARS, OVERLAP_CHARS) # <<>>
  /\ guardrailsMd # <<>>

(***************************************************************************)
(* Properties of the embedding build                                       *)
(***************************************************************************)
\* the batch whose response main awaits
AwaitedBatch == BatchAt(pendingDocs, batchStart, BATCH_SIZE)

\* a response with another number of items than the request had inputs, or
\* with an item that has no vector
MisshapenResponse(batch, response) ==
  /\ ~response.thrown
  /\ \/ Len(response.items) # Len(batch)
     \/ \E j \in 1..Len(response.items) : ~response.items[j].isArray

\* the documents main took over from the prior index
ReusedCount == Len(embedDocs) - Len(pendingDocs)

\* C25: when the response to a batch has another item count than the request
\* or an item without a vector, the run ends with an error; the embedding
\* index file is not written before the end of a run, so it is then as it
\* was before the run, also when earlier batches of the run succeeded.
C25_MisshapenBatchLeavesIndex ==
  [][/\ (embedPc = "awaiting" =>
           \A response \in ProviderResponses(InputsOf(AwaitedBatch), embedExit.run + 1) :
             (MisshapenResponse(AwaitedBatch, response)
                /\ EmbedResumes(AwaitedBatch, response))
               => (/\ embedPc' = "failed"
                   /\ (embedExit').code = 1
                   /\ (embedExit').error # <<>>
                   /\ embeddingsJson' = embeddingsJson))
     /\ (embedPc' # "done" => embeddingsJson' = embeddingsJson)]_vars

\* a run over a prior index fails at its second batch after the first gave
\* new records
C25_Witness ==
  /\ embedPc = "failed"
  /\ embedExit.error = <<"Embedding API returned unexpected batch response shape.">>
  /\ Len(embedSent) = 2
  /\ embeddingsJson # <<>>
  /\ Len(embedItems) > ReusedCount
  /\ \E k \in 1..Len(embedItems) :
       \A j \in 1..Len(embeddingsJson[1].items) : embeddingsJson[1].items[j] # embedItems[k]

\* C26: the records of the index a run wrote are in the order of the
\* document list, one per document, whichever were reused and whichever
\* batch embedded the others.
C26_IndexInDocumentOrder ==
  embedPc = "done" =>
    /\ embeddingsJson # <<>>
    /\ Len(embeddingsJson[1].items) = Len(embedDocs)
    /\ \A k \in 1..Len(embedDocs) : embeddingsJson[1].items[k].id = embedDocs[k].id

\* reused and new records in two batches, collected in another order than
\* the documents have
C26_Witness ==
  /\ embedPc = "done"
  /\ ReusedCount >= 1
  /\ Len(embedSent) >= 2
  /\ embedItems # embeddingsJson[1].items
  /\ \A i, j \in 1..Len(embedDocs) : embedDocs[i].id = embedDocs[j].id => i = j

\* the prior index holds a record of the document's id with the hash of its
\* current title, newline and content
HasCurrentRecord(doc) ==
  \E k \in 1..Len(ExistingItems(embeddingsJson)) :
    /\ ExistingItems(embeddingsJson)[k].id = doc.id
    /\ ExistingItems(embeddingsJson)[k].hash = contentHash(InputText(doc))

\* the embedding of that record
CurrentRecordVector(doc) ==
  LET k == CHOOSE i \in 1..Len(ExistingItems(embeddingsJson)) :
             /\ ExistingItems(embeddingsJson)[i].id = doc.id
             /\ ExistingItems(embeddingsJson)[i].hash = contentHash(InputText(doc))
  IN  ExistingItems(embeddingsJson)[k].embedding

\* C27: a run takes a document's vector from the prior index, and sends no
\* request for it, exactly when the prior index holds a record of the
\* document with the hash of its current title, newline and content; all
\* other documents are pending and only pending documents are sent.  With
\* such a record for every document the run makes no provider call.
C27_ReuseExactlyOnEqualHash ==
  /\ [][(EmbedStart /\ OPENAI_API_KEY # "" /\ documentsJson # <<>> /\ documentsJson # << <<>> >>)
          => LET docs == documentsJson[1]
                 reused == SelectSeq(docs, HasCurrentRecord)
                 others == SelectSeq(docs, LAMBDA doc : ~HasCurrentRecord(doc))
             IN  /\ Len(embedItems') = Len(reused)
                 /\ \A k \in 1..Len(reused) :
                      /\ embedItems'[k].id = reused[k].id
                      /\ embedItems'[k].embedding = CurrentRecordVector(reused[k])
                 /\ Len(pendingDocs') = Len(others)
                 /\ \A k \in 1..Len(others) :
                      /\ pendingDocs'[k].id = others[k].id
                      /\ pendingDocs'[k].inputText = InputText(others[k])
                 /\ (Len(others) = 0 => embedSent' = <<>> /\ embedPc' = "done")
                 /\ (Len(others) > 0 => embedPc' = "awaiting")]_vars
  /\ [](\A b \in 1..Len(embedSent) : \A k \in 1..Len(embedSent[b]) :
          \E p \in 1..Len(pendingDocs) : pendingDocs[p].inputText = embedSent[b][k])

\* a run over a prior index reuses a record and sends a document whose
\* record has the hash of an earlier content
C27_Witness ==
  /\ embedPc = "awaiting"
  /\ batchStart = 0
  /\ embeddingsJson # <<>>
  /\ Len(embedItems) >= 1
  /\ \E p \in 1..Len(pendingDocs) :
       /\ CachedRecord(embeddingsJson[1].items, pendingDocs[p].id) # <<>>
       /\ CachedRecord(embeddingsJson[1].items, pendingDocs[p].id)[1].hash # pendingDocs[p].hash

\* C28: the requests a run has made are the consecutive slices of BATCH_SIZE
\* pending documents, the last possibly shorter; at most one request is in
\* flight, and the request for a batch goes out only when the responses to
\* all batches before it have been received, checked and their records
\* collected.
C28_SequentialBatches ==
  /\ Cardinality(embedInFlight) <= 1
  /\ \A b \in 1..Len(embedSent) :
       embedSent[b] = InputsOf(SubSeq(pendingDocs, (b - 1) * BATCH_SIZE + 1,
                                      Min(b * BATCH_SIZE, Len(pendingDocs))))
  /\ embedPc = "awaiting" =>
       /\ embedInFlight = {batchStart}
       /\ Len(embedSent) = (batchStart \div BATCH_SIZE) + 1
       /\ Len(embedItems) = ReusedCount + batchStart

\* the third request of a run, for a last batch shorter than BATCH_SIZE
C28_Witness ==
  /\ embedPc = "awaiting"
  /\ BATCH_SIZE = 2
  /\ Len(embedSent) = 3
  /\ Len(embedSent[3]) = 1
  /\ embedInFlight = {4}

(***************************************************************************)
(* Properties of the contact form handler                                  *)
(***************************************************************************)
\* a field of the form is there: a value other than the empty string
Present(v) == v # Undefined /\ v # Str(<<>>)

\* one @, no whitespace, something before the @, and after it a dot with
\* something on both sides
WellFormedEmail(v) ==
  /\ v.type = "string"
  /\ LET s == v.text
         ats == {i \in 1..Len(s) : s[i] = "@"}
     IN  /\ Cardinality(ats) = 1
         /\ \A i \in 1..Len(s) : ~IsWhitespace(s[i])
         /\ \E i \in ats : i > 1 /\ \E j \in (i + 2)..(Len(s) - 1) : s[j] = "."

\* the message is a text of 10 to 5000 characters between its first and its
\* last character that is no whitespace
MessageLengthOk(v) ==
  /\ v.type = "string"
  /\ RunsLength(RunsTrim(v.text)) \in MinMessageLength..MaxMessageLength

\* the assessment came, says the token is valid, reports no other action than
\* the expected one and no score under 0.5
AssessmentValid(a) ==
  /\ a.kind = "data"
  /\ a.valid = "true"
  /\ a.action \in {<<>>, <<RECAPTCHA_EXPECTED_ACTION>>}
  /\ \A i \in 1..Len(a.score) : 2 * a.score[i].num >= a.score[i].den

\* the seven server-side checks of a request, in their order
ContactCheckList(body, a) ==
  << ~Present(body.hp_contact),
     Present(body.name) /\ Present(body.email) /\ Present(body.message),
     WellFormedEmail(body.email),
     MessageLengthOk(body.message),
     Present(body.captchaToken),
     RECAPTCHA_PROJECT_ID # "" /\ RECAPTCHA_API_KEY # "" /\ RECAPTCHA_SITE_KEY # "",
     AssessmentValid(a) >>

\* the first check a request fails, 0 when it passes them all
FirstFailedCheck(body, a) ==
  LET checks == ContactCheckList(body, a)
      failed == {k \in 1..Len(checks) : ~checks[k]}
  IN  IF failed = {} THEN 0 ELSE CHOOSE k \in failed : \A l \in failed : k <= l

\* the error response of each check; a message that is no text and an
\* assessment call that fails are answered by the catch block
ErrorOfCheck(k, body, a) ==
  CASE k = 1 -> ErrHoneypot
    [] k = 2 -> ErrFields
    [] k = 3 -> ErrEmail
    [] k = 4 -> IF body.message.type = "string" THEN ErrMessageLength ELSE ErrCaught
    [] k = 5 -> ErrCaptcha
    [] k = 6 -> ErrConfiguration
    [] k = 7 -> IF a.kind = "error" THEN ErrCaught ELSE ErrCaptcha

MailsOf(id) == {i \in 1..Len(outbox) : outbox[i].id = id}

\* the request answered last failed a check: it got the error response of the
\* first check it failed, and no mail was sent for it; or it got the success
\* response: it passed every check
LastReplyChecked ==
  \A i \in 1..Len(contactReplies) :
    LET r == contactReplies[i]
        k == FirstFailedCheck(r.body, r.assessment)
    IN  /\ k # 0 =>
             /\ r.response = ErrorOfCheck(k, r.body, r.assessment)
             /\ r.response.status >= 400
             /\ MailsOf(r.id) = {}
        /\ r.response.success => k = 0 /\ MailsOf(r.id) # {}

\* a handler that is past the assessment passed every check
SendingPassedChecks ==
  \A f \in contactRequests :
    f.pc \in {"adminMail", "confirmationMail"} =>
      FirstFailedCheck(f.body, f.assessment) = 0

\* a mail is sent by a handler that is past the assessment
SentByChecked ==
  \A i \in (Len(outbox) + 1)..Len(outbox') :
    \E f \in contactRequests' :
      /\ f.id = (outbox')[i].id
      /\ f.pc \in {"adminMail", "confirmationMail"}

\* C31: the contact endpoint sends an email only after every server-side
\* check has passed, the checks being made in this order: honeypot empty,
\* name, email and message present, email well-formed, trimmed message of 10
\* to 5000 characters, captcha token present, captcha configuration present,
\* captcha assessment valid (any reported action the expected one, any
\* reported score at least 0.5); a request that fails a check gets the error
\* response of the first check it fails, and no email is sent for it
C31_MailOnlyAfterEveryCheck ==
  /\ [](LastReplyChecked /\ SendingPassedChecks)
  /\ [][SentByChecked]_vars

\* a form that passed every check, its assessment reporting the expected
\* action and a score of exactly 0.5, was answered with success after its
\* mail was sent
C31_Witness ==
  /\ contactReplies # <<>>
  /\ contactReplies[1].response = ContactSuccess
  /\ contactReplies[1].assessment.score = <<Fraction(1, 2)>>
  /\ contactReplies[1].assessment.action = <<RECAPTCHA_EXPECTED_ACTION>>
  /\ \E i \in 1..Len(outbox) :
       outbox[i] = AdminMail(contactReplies[1].id, contactReplies[1].body)

\* C32: a response is marked cache-served only when the cache holds, under
\* the normal form of the question, an entry that an earlier request wrote or
\* that was loaded at startup, and the response carries the answer and the
\* sources of that entry; with an empty cache no question is answered as
\* cache-served
C32_CacheServedFromHeldEntry ==
  (Answered /\ Done.response.cached) =>
    LET cacheKey == CacheKeyOf(Done.question)
    IN  /\ cacheKey \in DOMAIN chatCache
        /\ Done.response.answer = chatCache[cacheKey].answer
        /\ Done.response.sources = chatCache[cacheKey].sources

WindowAdvances ==
  ((hardSlice').pc = "slicing" /\ hardSlice.pc = "slicing")
    => ((hardSlice').start > hardSlice.start)

\* C34: chunkText terminates for every maxChars and overlapChars: the hard
\* slice of an oversized paragraph comes to its end, and every window of it
\* starts strictly after the window before it.
C34_HardSliceTerminates ==
  /\ <>(hardSlice.pc = "done")
  /\ [][WindowAdvances]_vars

(***************************************************************************)
(* Properties of the cache under concurrent requests                       *)
(***************************************************************************)
\* the step is the start of a request whose cache key is k
ReadOfKey(k) ==
  \E raw \in TwoKeyQuestions :
    /\ cacheKeyOf[questionOf[raw]] = k
    /\ ChatStart(raw)

\* what a step does to the entry the cache holds under k
EntryKeptOrReplaced(k) ==
  IF k \in DOMAIN chatCache'
    THEN \/ chatCache'[k] = chatCache[k]
         \/ /\ chatCache'[k].timestamp = now
            /\ chatCache'[k].timestamp >= chatCache[k].timestamp
    ELSE /\ CacheItemStale(chatCache[k], now)
         /\ ReadOfKey(k)

\* C35: a fresh cache entry is never removed: an entry leaves the cache only
\* in a read of its own key that finds it stale, or by being overwritten with
\* a newer entry for the same key, however the concurrent requests interleave.
C35_FreshEntryNeverRemoved ==
  [][\A k \in DOMAIN chatCache : EntryKeptOrReplaced(k)]_vars

\* a stale entry was evicted (the cache file still has it, its write having
\* failed) while the entry of the other key, written since, is fresh and kept,
\* a request still waiting for a provider
C35_Witness ==
  \E a \in DOMAIN cacheFile \ DOMAIN chatCache :
    \E b \in DOMAIN chatCache :
      /\ b # a
      /\ CacheItemStale(cacheFile[a], now)
      /\ ~CacheItemStale(chatCache[b], now)
      /\ chatCache[b].timestamp > cacheFile[a].timestamp
      /\ requests # EmptyBag

\* the step answers a request with the item the cache holds
AnsweredFromCache == completed' # <<>> /\ completed'[1].response.cached

\* C36: serving a question from the cache leaves the cache unchanged: the
\* entry keeps the timestamp of its write, and nothing is written to the
\* cache file on a cache hit.
C36_CacheHitLeavesCache ==
  [][AnsweredFromCache
       => /\ chatCache' = chatCache
          /\ cacheFile' = cacheFile
          /\ writeFailures' = writeFailures]_vars

\* a request was served an entry exactly TTL old, which has the time of its
\* write still
C36_Witness ==
  /\ completed # <<>>
  /\ completed[1].response.cached
  /\ cacheKeyOf[completed[1].question] \in DOMAIN chatCache
  /\ now - chatCache[cacheKeyOf[completed[1].question]].timestamp = ttlMs

(***************************************************************************)
(* Properties of the document ids                                          *)
(***************************************************************************)
\* the ids of a document list are pairwise different
UniqueIds(documents) ==
  \A i, j \in 1..Len(documents) : documents[i].id = documents[j].id => i = j

\* C37: document ids are unique within a built document index: no two
\* documents, from the same or from different source files, get the same id.
C37_DocumentIdsUnique ==
  (knowledgeExit.code = 0 /\ documentsJson # <<>>) => UniqueIds(documentsJson[1])

(***************************************************************************)
(* Properties of the written embedding index                               *)
(***************************************************************************)
\* the index has one record for each document of the list, in its place,
\* with the hash of the document's title and content
OneRecordPerDocument(docs, items) ==
  /\ Len(items) = Len(docs)
  /\ \A k \in 1..Len(docs) :
       k \in 1..Len(items)
         => /\ items[k].id = docs[k].id
            /\ items[k].hash = contentHash(InputText(docs[k]))

\* C38: an embedding build that completes successfully writes an index with
\* exactly one record per document of the document list, each record's hash
\* equal to the hash of that document's current title and content, and with
\* no record for a document that is no longer in the list.
C38_IndexMatchesDocuments ==
  (embedPc = "done" /\ embedExit.code = 0)
    => OneRecordPerDocument(embedDocs, embeddingsJson[1].items)

(***************************************************************************)
(* Properties of the server without a provider credential                  *)
(***************************************************************************)
\* the step answers a request that came to the cache read
ReadTheCache ==
  /\ completed' # <<>>
  /\ \E i \in 1..Len(completed'[1].log) : completed'[1].log[i] = "cacheRead"

\* the key of the request the step answers
KeyAnswered == cacheKeyOf[completed'[1].question]

\* the cache held, before the step, a fresh entry under that key
HitsFreshEntry ==
  /\ KeyAnswered \in DOMAIN chatCache
  /\ now - chatCache[KeyAnswered].timestamp <= ttlMs

\* the request is answered with the entry of its key
AnsweredFromEntry ==
  /\ completed'[1].response.status = 200
  /\ completed'[1].response.cached
  /\ completed'[1].response.answer = chatCache[KeyAnswered].answer

\* the request fails as not configured, before retrieval and any provider call
FailsNotConfigured ==
  /\ completed'[1].response = ErrorResponse(503, ErrNotConfigured)
  /\ completed'[1].log = <<"guardrail", "faq", "cacheRead">>
  /\ requests' = requests

\* the step writes no entry: what the cache and its file hold, they held
NoEntryWritten ==
  /\ \A k \in DOMAIN chatCache' : k \in DOMAIN chatCache /\ chatCache'[k] = chatCache[k]
  /\ \A k \in DOMAIN chatCache \ DOMAIN chatCache' : k = KeyAnswered
  /\ cacheFile' \in {cacheFile, chatCache'}

PositivelySimilar(vector) ==
  { i \in 1..Len(ragDocuments) :
      /\ ragDocuments[i].id \in DOMAIN ragEmbeddingsById
      /\ ScorePositive(cosineSimilarity(vector, ragEmbeddingsById[ragDocuments[i].id])) }

\* what retrieval is to return once the embedding call has given a vector
VectorModeResult(question, vector) ==
  IF PositivelySimilar(vector) = {}
    THEN retrieveByKeyword(question, CHATBOT_CONTEXT_CHUNKS, ragDocuments)
    ELSE Slice(VectorScored(vector, ragDocuments, ragEmbeddingsById),
               CHATBOT_CONTEXT_CHUNKS)

\* C40: in vector mode, when the embedding call succeeds but no indexed
\* document has a similarity > 0 to the query, retrieval returns the
\* keyword-mode result for the question instead of an empty result; a
\* non-empty vector-mode result is returned as is, keyword mode not consulted.
C40_EmptyVectorResultFallsBackToKeyword ==
  [][\A f \in BagToSet(requests), outcome \in RetrievalOutcomes :
       (outcome.kind = "vector" /\ EmbeddingReturn(f, outcome))
         => /\ GoesOnWith(f, VectorModeResult(f.question, outcome.vector))
            /\ PositivelySimilar(outcome.vector) # {}
                 => \A k \in 1..Len(VectorModeResult(f.question, outcome.vector)) :
                      \E i \in PositivelySimilar(outcome.vector) :
                        VectorModeResult(f.question, outcome.vector)[k].doc = ragDocuments[i]]_vars

\* a request waits for generation with the keyword-mode result as its context,
\* the provider having a vector to give to which no document is similar, and
\* another to which one is
C40_Witness ==
  /\ UsesVectorMode(OPENAI_API_KEY # "", ragDocuments, ragEmbeddingsById)
  /\ \E f \in BagToSet(requests) :
       /\ f.pc = "generation"
       /\ Count(f.log, "embedding") = 1
       /\ f.contextItems = retrieveByKeyword(f.question, CHATBOT_CONTEXT_CHUNKS, ragDocuments)
       /\ \E outcome \in RetrievalOutcomes :
            outcome.kind = "vector" /\ PositivelySimilar(outcome.vector) = {}
       /\ \E outcome \in RetrievalOutcomes :
            /\ outcome.kind = "vector"
            /\ PositivelySimilar(outcome.vector) # {}
            /\ f.contextItems # VectorModeResult(f.question, outcome.vector)

=============================================================================
